---- MODULE Spec2Model ----
(***************************************************************************)
(* Edit-history state machine of the photo editor (App.tsx) together with  *)
(* the remote operation gateway (services/geminiService.ts).               *)
(*                                                                         *)
(* Strings that the code takes apart (MIME types, data URLs, base64 text,  *)
(* prompts) are sequences of one-character strings, so that split, match,  *)
(* trim, startsWith and atob are computed as the code computes them.       *)
(* Indices into history are 0-based as in the code; history[i] of the code *)
(* is history[i + 1] here.                                                 *)
(***************************************************************************)
EXTENDS Integers, Sequences, FiniteSets, TLC

\* Longest history the model lets an append produce.
MaxHistory == 2

(***************************************************************************)
(* String helpers                                                          *)
(***************************************************************************)
StartsWith(s, p) == Len(s) >= Len(p) /\ SubSeq(s, 1, Len(p)) = p

\* Positions of character c in s.
Positions(s, c) == {i \in 1..Len(s) : s[i] = c}

Min(S) == CHOOSE x \in S : \A y \in S : x <= y

\* String.prototype.split(','): the pieces between the commas.
RECURSIVE split(_, _)
split(s, c) ==
    IF Positions(s, c) = {} THEN <<s>>
    ELSE LET i == Min(Positions(s, c))
         IN  <<SubSeq(s, 1, i - 1)>> \o split(SubSeq(s, i + 1, Len(s)), c)

\* s.match(/:(.*?);/): <<group>>, the capture group, or <<>> (no match).
\* The leftmost ':' that is followed by a ';' starts the match and the lazy
\* group stops at the first ';' after it.
matchMime(s) ==
    LET starts == {i \in Positions(s, ":") : \E j \in Positions(s, ";") : j > i}
    IN  IF starts = {} THEN <<>>
        ELSE LET i == Min(starts)
                 j == Min({k \in Positions(s, ";") : k > i})
             IN  <<SubSeq(s, i + 1, j - 1)>>

\* String.prototype.trim() for the blank character.
RECURSIVE trim(_)
trim(s) ==
    IF s = <<>> THEN s
    ELSE IF Head(s) = " " THEN trim(Tail(s))
    ELSE IF s[Len(s)] = " " THEN trim(SubSeq(s, 1, Len(s) - 1))
    ELSE s

(***************************************************************************)
(* atob: forgiving-base64 decode.  B64Value lists the 6-bit value of the   *)
(* alphabet characters the model uses.                                     *)
(***************************************************************************)
B64Chars == {"A", "Q", "g", "w", "/"}

B64Value(c) ==
    CASE c = "A" -> 0
      [] c = "Q" -> 16
      [] c = "g" -> 32
      [] c = "w" -> 48
      [] c = "/" -> 63

\* Remove one or two trailing '=' when the length is a multiple of four.
stripPadding(s) ==
    IF Len(s) % 4 = 0 /\ Len(s) >= 2 /\ s[Len(s)] = "="
    THEN IF s[Len(s) - 1] = "="
         THEN SubSeq(s, 1, Len(s) - 2)
         ELSE SubSeq(s, 1, Len(s) - 1)
    ELSE s

\* decodeGroup keeping the low bits of a two-character tail instead of the
\* high ones.
decodeGroupLowBits(g) ==
    LET v(i) == B64Value(g[i])
    IN  CASE Len(g) = 4 ->
               LET n == v(1) * 262144 + v(2) * 4096 + v(3) * 64 + v(4)
               IN  <<n \div 65536, (n \div 256) % 256, n % 256>>
          [] Len(g) = 3 ->
               LET n == v(1) * 4096 + v(2) * 64 + v(3)
               IN  <<n \div 1024, (n \div 4) % 256>>
          [] Len(g) = 2 ->
               LET n == v(1) * 64 + v(2)
               IN  <<n % 256>>
          [] OTHER -> <<>>

\* The bytes of a run of base64 characters (at most four of them).
decodeGroup(g) ==
    LET v(i) == B64Value(g[i])
    IN  CASE Len(g) = 4 ->
               LET n == v(1) * 262144 + v(2) * 4096 + v(3) * 64 + v(4)
               IN  <<n \div 65536, (n \div 256) % 256, n % 256>>
          [] Len(g) = 3 ->
               LET n == v(1) * 4096 + v(2) * 64 + v(3)
               IN  <<n \div 1024, (n \div 4) % 256>>
          [] Len(g) = 2 ->
               LET n == v(1) * 64 + v(2)
               IN  <<n \div 16>>
          [] OTHER -> <<>>

RECURSIVE decodeAll(_)
decodeAll(s) ==
    IF Len(s) <= 4 THEN decodeGroup(s)
    ELSE decodeGroup(SubSeq(s, 1, 4)) \o decodeAll(SubSeq(s, 5, Len(s)))

\* atob(s): [ok |-> TRUE, bytes |-> ...], or ok = FALSE when it throws
\* InvalidCharacterError.
atob(s) ==
    LET t == stripPadding(s)
    IN  IF Len(t) % 4 = 1 \/ \E i \in 1..Len(t) : t[i] \notin B64Chars
        THEN [ok |-> FALSE, bytes |-> <<>>]
        ELSE [ok |-> TRUE, bytes |-> decodeAll(t)]

(***************************************************************************)
(* Files (Artifacts) and the values the environment supplies               *)
(***************************************************************************)
\* An optional value: <<>> is null/undefined, <<v>> is the value v.
Null == <<>>
Some(v) == <<v>>

ImagePng == <<"i", "m", "a", "g", "e", "/", "p", "n", "g">>
ImageJpeg == <<"i", "m", "a", "g", "e", "/", "j", "p", "e", "g">>
VideoMp4 == <<"v", "i", "d", "e", "o", "/", "m", "p", "4">>
VideoPrefix == <<"v", "i", "d", "e", "o", "/">>

File(bytes, type) == [type |-> type, bytes |-> bytes]

\* Files the user can pick on the start screen: a photo and a video clip.
UploadA == File(<<1>>, ImageJpeg)
UploadV == File(<<2>>, VideoMp4)
UploadFiles == {UploadA, UploadV}

\* FileList values handed to handleFileSelect: null, or a list whose first
\* entry is the picked file (an empty list has files[0] undefined).
FileLists == {Null} \cup {Some(f) : f \in UploadFiles}

\* Bytes of a downloaded video.
VideoBytes == <<9>>

\* base64 text of an inline image part: "QQ==" (the byte 65), and text that
\* atob rejects.
ImageText == <<"Q", "Q", "=", "=">>
InlineTexts == {ImageText, <<"Q", "*">>}
InlineData(mimeType, data) == [mimeType |-> mimeType, data |-> data]
InlineDatas ==
    {InlineData(ImagePng, d) : d \in InlineTexts}
        \cup {InlineData(<<>>, ImageText)}

FinishReasons == {"", "STOP", "IMAGE_SAFETY"}
Texts == {Null, Some(<<" ">>), Some(<<" ", "n", "o">>)}

\* GenerateContentResponse, reduced to the fields handleApiResponse reads.
\* "" stands for an absent (undefined) string field.
Response(blockReason, blockReasonMessage, inlineData, finishReason, text) ==
    [blockReason |-> blockReason, blockReasonMessage |-> blockReasonMessage,
     inlineData |-> inlineData, finishReason |-> finishReason, text |-> text]

\* Every combination of block reason, image part, finish reason and text,
\* and the other image parts and the block message on an otherwise plain
\* response.
Responses ==
    {Response(b, "", i, f, t) :
        b \in {"", "SAFETY"},
        i \in {Null, Some(InlineData(ImagePng, ImageText))},
        f \in FinishReasons, t \in Texts}
        \cup {Response("", "", Some(i), "STOP", Null) : i \in InlineDatas}
        \cup {Response("OTHER", "blocked by policy", Null, "", Null)}

\* Prompt texts: empty, blank, and an instruction.
Prompts == {<<>>, <<" ">>, <<"g", "o">>}
\* What the user leaves in an input after typing.
TypedPrompts == {<<>>, <<"g", "o">>}

Tabs == {"retouch", "adjust", "filters", "crop", "threeD", "animate",
         "removeBg", "restore", "groupRestore"}

(***************************************************************************)
(* Error values.  A thrown Error carries a message; the message is kept as *)
(* the template that produced it and the values substituted into it.       *)
(***************************************************************************)
Message(template, context, reason, note, text) ==
    [template |-> template, context |-> context, reason |-> reason,
     note |-> note, text |-> text]

Ok(v) == [ok |-> TRUE, value |-> Some(v), message |-> Null]
Throw(m) == [ok |-> FALSE, value |-> Null, message |-> Some(m)]

(***************************************************************************)
(* dataURLtoFile (App.tsx)                                                 *)
(***************************************************************************)
dataURLtoFile(dataurl) ==
    LET arr == split(dataurl, ",")
    IN  IF Len(arr) < 2
        THEN Throw(Message("Invalid data URL", "", "", "", <<>>))
        ELSE LET mimeMatch == matchMime(arr[1])
             IN  IF mimeMatch = <<>> \/ mimeMatch[1] = <<>>
                 THEN Throw(Message("Could not parse MIME type from data URL",
                                    "", "", "", <<>>))
                 ELSE LET bstr == atob(arr[2])
                      IN  IF ~bstr.ok
                          THEN Throw(Message("InvalidCharacterError", "", "", "", <<>>))
                          ELSE Ok(File(bstr.bytes, mimeMatch[1]))

(***************************************************************************)
(* handleApiResponse (geminiService.ts)                                    *)
(***************************************************************************)
DataUrl(mimeType, data) ==
    <<"d", "a", "t", "a", ":">> \o mimeType
        \o <<";", "b", "a", "s", "e", "6", "4", ",">> \o data

\* handleApiResponse with the image part looked for before the block check.
handleApiResponseImageFirst(response, context) ==
    IF response.inlineData # Null
    THEN Ok(DataUrl(response.inlineData[1].mimeType, response.inlineData[1].data))
    ELSE IF response.blockReason # ""
    THEN Throw(Message("Request was blocked. Reason: ", context,
                       response.blockReason, response.blockReasonMessage, <<>>))
    ELSE IF response.finishReason # "" /\ response.finishReason # "STOP"
    THEN Throw(Message("Image generation stopped unexpectedly. Reason: ", context,
                       response.finishReason, "", <<>>))
    ELSE LET textFeedback == IF response.text = Null THEN <<>>
                             ELSE trim(response.text[1])
         IN  IF textFeedback # <<>>
             THEN Throw(Message("The AI model did not return an image. The model responded with text: ",
                                context, "", "", textFeedback))
             ELSE Throw(Message("The AI model did not return an image. This can happen due to safety filters",
                                context, "", "", <<>>))

\* handleApiResponse with response.text taken as it is, without trim().
handleApiResponseUntrimmed(response, context) ==
    IF response.blockReason # ""
    THEN Throw(Message("Request was blocked. Reason: ", context,
                       response.blockReason, response.blockReasonMessage, <<>>))
    ELSE IF response.inlineData # Null
    THEN Ok(DataUrl(response.inlineData[1].mimeType, response.inlineData[1].data))
    ELSE IF response.finishReason # "" /\ response.finishReason # "STOP"
    THEN Throw(Message("Image generation stopped unexpectedly. Reason: ", context,
                       response.finishReason, "", <<>>))
    ELSE LET textFeedback == IF response.text = Null THEN <<>>
                             ELSE response.text[1]
         IN  IF textFeedback # <<>>
             THEN Throw(Message("The AI model did not return an image. The model responded with text: ",
                                context, "", "", textFeedback))
             ELSE Throw(Message("The AI model did not return an image. This can happen due to safety filters",
                                context, "", "", <<>>))

handleApiResponse(response, context) ==
    IF response.blockReason # ""
    THEN Throw(Message("Request was blocked. Reason: ", context,
                       response.blockReason, response.blockReasonMessage, <<>>))
    ELSE IF response.inlineData # Null
    THEN Ok(DataUrl(response.inlineData[1].mimeType, response.inlineData[1].data))
    ELSE IF response.finishReason # "" /\ response.finishReason # "STOP"
    THEN Throw(Message("Image generation stopped unexpectedly. Reason: ", context,
                       response.finishReason, "", <<>>))
    ELSE LET textFeedback == IF response.text = Null THEN <<>>
                             ELSE trim(response.text[1])
         IN  IF textFeedback # <<>>
             THEN Throw(Message("The AI model did not return an image. The model responded with text: ",
                                context, "", "", textFeedback))
             ELSE Throw(Message("The AI model did not return an image. This can happen due to safety filters",
                                context, "", "", <<>>))

(***************************************************************************)
(* The synchronous service functions (generateEditedImage, ...,            *)
(* groupRestorePhoto): fileToPart, one generateContent call, and           *)
(* handleApiResponse with the function's context string.                   *)
(***************************************************************************)
\* A rejection with a value that is not an Error (FileReader's onerror event).
UnknownError == Message("An unknown error occurred.", "", "", "", <<>>)
\* An Error thrown by the SDK or by fetch.
TransportError == Message("Failed to fetch", "", "", "", <<>>)

\* What the environment does to one call: the FileReader fails, the request
\* throws, or a response arrives.
ImageOutcome(step, response) == [step |-> step, response |-> response]
ImageOutcomes ==
    {ImageOutcome("reader error", Null), ImageOutcome("request throws", Null)}
        \cup {ImageOutcome("response", Some(r)) : r \in Responses}

generateImage(context, outcome) ==
    IF outcome.step = "reader error" THEN Throw(UnknownError)
    ELSE IF outcome.step = "request throws" THEN Throw(TransportError)
    ELSE handleApiResponse(outcome.response[1], context)

(***************************************************************************)
(* generateVideoFromImage (geminiService.ts)                               *)
(***************************************************************************)
\* Number of status queries the poll loop allows.
maxAttempts == 30

\* State of the remote video operation as the SDK reports it; "" is an
\* absent error or link.
Operation(done, err, uri) == [done |-> done, error |-> err, uri |-> uri]
PendingOperation == Operation(FALSE, "", "")
DoneOperations ==
    {Operation(TRUE, e, u) : e \in {"", "quota exceeded"},
                             u \in {"", "https://video?id=1"}}

\* What the environment does to one run: reply number 0 answers
\* generateVideos and reply number k answers the k-th status query.  The
\* first `pending` replies report the operation as not done, reply number
\* `pending` is `final` (Null: the call throws), and any later one would not
\* be done either.
VideoScript(reader, pending, final, download) ==
    [reader |-> reader, pending |-> pending, final |-> final,
     download |-> download]

\* How many replies report "not done" before the final one.
PendingReplies == {0, 1, maxAttempts - 1, maxAttempts}
Downloads == {"fetch throws", "not ok", "blob throws", "ok"}

\* The reader fails; a call throws; the operation never gets done; it gets
\* done with an error or without a link; it gets done with a link and the
\* download goes one of its ways.
VideoScripts ==
    {VideoScript(FALSE, 0, Null, "ok"),
     VideoScript(TRUE, maxAttempts + 1, Null, "ok")}
        \cup {VideoScript(TRUE, n, Null, "ok") : n \in PendingReplies}
        \cup {VideoScript(TRUE, n, Some(o), "ok") :
                n \in PendingReplies,
                o \in {d \in DoneOperations : d.error # "" \/ d.uri = ""}}
        \cup {VideoScript(TRUE, n, Some(o), d) :
                n \in PendingReplies,
                o \in {d \in DoneOperations : d.error = "" /\ d.uri # ""},
                d \in Downloads}

\* Reply number k of the script.
Reply(script, k) ==
    IF k < script.pending THEN Some(PendingOperation)
    ELSE IF k = script.pending THEN script.final
    ELSE Some(PendingOperation)

\* One progress notification.
Progress(text, seconds) == [text |-> text, seconds |-> seconds]

\* The while loop: the operation it ends with, the number of status queries
\* made, whether a query threw, and the notifications emitted.
RECURSIVE pollLoop(_, _, _, _)
pollLoop(script, operation, attempts, progress) ==
    IF ~operation.done /\ attempts < maxAttempts
    THEN LET reported == Append(progress,
                                Progress("Checking progress (s elapsed)...",
                                         (attempts + 1) * 10))
             reply == Reply(script, attempts + 1)
         IN  IF reply = Null
             THEN [threw |-> TRUE, operation |-> operation,
                   attempts |-> attempts, progress |-> reported]
             ELSE pollLoop(script, reply[1], attempts + 1, reported)
    ELSE [threw |-> FALSE, operation |-> operation, attempts |-> attempts,
          progress |-> progress]

\* The run of generateVideoFromImage against a script: what the promise
\* settles with, the status queries made and the notifications emitted.
Run(result, attempts, fetched, progress) ==
    [result |-> result, attempts |-> attempts, fetched |-> fetched,
     progress |-> progress]

generateVideoFromImage(script) ==
    LET p1 == <<Progress("Initializing video generation...", 0)>>
        p2 == Append(p1, Progress("Sending request to the video model...", 0))
        p3 == Append(p2, Progress("AI is creating your video. This may take a few minutes...", 0))
    IN  IF ~script.reader THEN Run(Throw(UnknownError), 0, FALSE, p1)
        ELSE IF Reply(script, 0) = Null THEN Run(Throw(TransportError), 0, FALSE, p2)
        ELSE LET loop == pollLoop(script, Reply(script, 0)[1], 0, p3)
                 operation == loop.operation
                 p4 == Append(loop.progress,
                              Progress("Downloading generated video...", 0))
             IN  IF loop.threw
                 THEN Run(Throw(TransportError), loop.attempts + 1, FALSE,
                          loop.progress)
                 ELSE IF ~operation.done
                 THEN Run(Throw(Message("Video generation timed out after 5 minutes.",
                                        "", "", "", <<>>)),
                          loop.attempts, FALSE, loop.progress)
                 ELSE IF operation.error # ""
                 THEN Run(Throw(Message("Video generation failed: ", "",
                                        operation.error, "", <<>>)),
                          loop.attempts, FALSE, loop.progress)
                 ELSE IF operation.uri = ""
                 THEN Run(Throw(Message("Video generation finished, but no download link was provided.",
                                        "", "", "", <<>>)),
                          loop.attempts, FALSE, loop.progress)
                 ELSE IF script.download = "fetch throws"
                 THEN Run(Throw(TransportError), loop.attempts, TRUE, p4)
                 ELSE IF script.download = "not ok"
                 THEN Run(Throw(Message("Failed to download video: ", "",
                                        "Forbidden", "", <<>>)),
                          loop.attempts, TRUE, p4)
                 ELSE IF script.download = "blob throws"
                 THEN Run(Throw(TransportError), loop.attempts, TRUE, p4)
                 ELSE Run(Ok(File(VideoBytes, VideoMp4)), loop.attempts, TRUE,
                          Append(p4, Progress("Video downloaded successfully!", 0)))

(***************************************************************************)
(* State of the App component                                              *)
(***************************************************************************)
VARIABLES
    history,         \* File[]: the entries
    historyIndex,    \* the head, -1 when empty
    prompt,          \* text of the retouch input
    animatePrompt,   \* text of the animate input
    isLoading,       \* the busy flag
    loadingMessage,  \* text under the spinner
    error,           \* Null or the surfaced error
    editHotspot,     \* Null or the clicked point
    activeTab,
    completedCrop,   \* Null or the finished crop rectangle
    task,            \* Null or the suspended async handler and its closure
    last             \* the handler that ran last and the path it took

vars == <<history, historyIndex, prompt, animatePrompt, isLoading,
          loadingMessage, error, editHotspot, activeTab, completedCrop,
          task, last>>

Call(handler, path) == [handler |-> handler, path |-> path]
\* The plain state setters are not told apart.
Setter == Call("setState", "done")

LoadingText(text, seconds) == [text |-> text, seconds |-> seconds]
DefaultLoading == LoadingText("AI is working its magic...", 0)

\* history[historyIndex] ?? null and history[0] ?? null
At(h, i) == IF i >= 0 /\ i < Len(h) THEN Some(h[i + 1]) ELSE Null
currentImage == At(history, historyIndex)
originalImage == At(history, 0)

isVideo(file) == StartsWith(file.type, VideoPrefix)
isCurrentItemVideo == currentImage # Null /\ isVideo(currentImage[1])

canUndo == historyIndex > 0
canRedo == historyIndex < Len(history) - 1

\* addImageToHistory with the head set to the length of the new history.
addImageToHistoryHeadPastEnd(h, i, newImageFile) ==
    LET newHistory == Append(SubSeq(h, 1, i + 1), newImageFile)
    IN  [history |-> newHistory, historyIndex |-> Len(newHistory)]

\* addImageToHistory, as a function of the history and historyIndex its
\* closure holds: the new history and the new historyIndex.
addImageToHistory(h, i, newImageFile) ==
    LET newHistory == Append(SubSeq(h, 1, i + 1), newImageFile)
    IN  [history |-> newHistory, historyIndex |-> Len(newHistory) - 1]

Init ==
    /\ history = <<>>
    /\ historyIndex = -1
    /\ prompt = <<>>
    /\ animatePrompt = <<>>
    /\ isLoading = FALSE
    /\ loadingMessage = DefaultLoading
    /\ error = Null
    /\ editHotspot = Null
    /\ activeTab = "retouch"
    /\ completedCrop = Null
    /\ task = Null
    /\ last = Call("App", "mounted")

(***************************************************************************)
(* History Store handlers                                                  *)
(***************************************************************************)
\* handleImageUpload without setEditHotspot(null).
handleImageUploadKeepsHotspot(file) ==
    /\ error' = Null
    /\ history' = <<file>>
    /\ historyIndex' = 0
    /\ activeTab' = "retouch"
    /\ completedCrop' = Null
    /\ last' = Call("handleImageUpload", "done")
    /\ UNCHANGED <<prompt, animatePrompt, isLoading, loadingMessage, task,
                   editHotspot>>

handleImageUpload(file) ==
    /\ error' = Null
    /\ history' = <<file>>
    /\ historyIndex' = 0
    /\ editHotspot' = Null
    /\ activeTab' = "retouch"
    /\ completedCrop' = Null
    /\ last' = Call("handleImageUpload", "done")
    /\ UNCHANGED <<prompt, animatePrompt, isLoading, loadingMessage, task>>

\* handleFileSelect with an else branch that reports the missing file.
handleFileSelectReports(files) ==
    IF files # Null
    THEN handleImageUpload(files[1])
    ELSE /\ last' = Call("handleFileSelect", "no file")
         /\ error' = Some([prefix |-> "No file selected.", message |-> Null])
         /\ UNCHANGED <<history, historyIndex, prompt, animatePrompt, isLoading,
                        loadingMessage, editHotspot, activeTab,
                        completedCrop, task>>

handleFileSelect(files) ==
    IF files # Null
    THEN handleImageUpload(files[1])
    ELSE /\ last' = Call("handleFileSelect", "no file")
         /\ UNCHANGED <<history, historyIndex, prompt, animatePrompt, isLoading,
                        loadingMessage, error, editHotspot, activeTab,
                        completedCrop, task>>

\* handleUndo that also drops the entries beyond the new head.
handleUndoPops ==
    /\ IF canUndo
       THEN /\ historyIndex' = historyIndex - 1
            /\ history' = SubSeq(history, 1, historyIndex)
            /\ editHotspot' = Null
            /\ last' = Call("handleUndo", "done")
       ELSE /\ UNCHANGED <<history, historyIndex, editHotspot>>
            /\ last' = Call("handleUndo", "no-op")
    /\ UNCHANGED <<prompt, animatePrompt, isLoading, loadingMessage,
                   error, activeTab, completedCrop, task>>

handleUndo ==
    /\ IF canUndo
       THEN /\ historyIndex' = historyIndex - 1
            /\ editHotspot' = Null
            /\ last' = Call("handleUndo", "done")
       ELSE /\ UNCHANGED <<historyIndex, editHotspot>>
            /\ last' = Call("handleUndo", "no-op")
    /\ UNCHANGED <<history, prompt, animatePrompt, isLoading, loadingMessage,
                   error, activeTab, completedCrop, task>>

\* handleRedo with the test historyIndex <= history.length - 1.
handleRedoOffByOne ==
    /\ IF historyIndex <= Len(history) - 1
       THEN /\ historyIndex' = historyIndex + 1
            /\ editHotspot' = Null
            /\ last' = Call("handleRedo", "done")
       ELSE /\ UNCHANGED <<historyIndex, editHotspot>>
            /\ last' = Call("handleRedo", "no-op")
    /\ UNCHANGED <<history, prompt, animatePrompt, isLoading, loadingMessage,
                   error, activeTab, completedCrop, task>>

handleRedo ==
    /\ IF canRedo
       THEN /\ historyIndex' = historyIndex + 1
            /\ editHotspot' = Null
            /\ last' = Call("handleRedo", "done")
       ELSE /\ UNCHANGED <<historyIndex, editHotspot>>
            /\ last' = Call("handleRedo", "no-op")
    /\ UNCHANGED <<history, prompt, animatePrompt, isLoading, loadingMessage,
                   error, activeTab, completedCrop, task>>

\* handleReset that also drops the edits.
handleResetDropsEdits ==
    /\ IF Len(history) > 0
       THEN /\ historyIndex' = 0
            /\ history' = <<history[1]>>
            /\ error' = Null
            /\ editHotspot' = Null
            /\ last' = Call("handleReset", "done")
       ELSE /\ UNCHANGED <<history, historyIndex, error, editHotspot>>
            /\ last' = Call("handleReset", "no-op")
    /\ UNCHANGED <<prompt, animatePrompt, isLoading, loadingMessage,
                   activeTab, completedCrop, task>>

handleReset ==
    /\ IF Len(history) > 0
       THEN /\ historyIndex' = 0
            /\ error' = Null
            /\ editHotspot' = Null
            /\ last' = Call("handleReset", "done")
       ELSE /\ UNCHANGED <<historyIndex, error, editHotspot>>
            /\ last' = Call("handleReset", "no-op")
    /\ UNCHANGED <<history, prompt, animatePrompt, isLoading, loadingMessage,
                   activeTab, completedCrop, task>>

\* handleUploadNew without setHistoryIndex(-1).
handleUploadNewKeepsHead ==
    /\ history' = <<>>
    /\ error' = Null
    /\ prompt' = <<>>
    /\ editHotspot' = Null
    /\ last' = Call("handleUploadNew", "done")
    /\ UNCHANGED <<historyIndex, animatePrompt, isLoading, loadingMessage,
                   activeTab, completedCrop, task>>

handleUploadNew ==
    /\ history' = <<>>
    /\ historyIndex' = -1
    /\ error' = Null
    /\ prompt' = <<>>
    /\ editHotspot' = Null
    /\ last' = Call("handleUploadNew", "done")
    /\ UNCHANGED <<animatePrompt, isLoading, loadingMessage, activeTab,
                   completedCrop, task>>

\* handleDownload: the link clicked, as the object its href points to and
\* the extension of its download name `pixshop-result-<time>.<extension>`.
Export(file, extension) ==
    [handler |-> "handleDownload", path |-> "exported", href |-> file,
     extension |-> extension]

\* handleDownload exporting the original upload instead of the current item.
handleDownloadOriginal ==
    /\ IF currentImage # Null
       THEN last' = Export(originalImage[1],
                           IF isCurrentItemVideo THEN "mp4" ELSE "png")
       ELSE last' = Call("handleDownload", "no-op")
    /\ UNCHANGED <<history, historyIndex, prompt, animatePrompt, isLoading,
                   loadingMessage, error, editHotspot, activeTab, completedCrop,
                   task>>

handleDownload ==
    /\ IF currentImage # Null
       THEN last' = Export(currentImage[1],
                           IF isCurrentItemVideo THEN "mp4" ELSE "png")
       ELSE last' = Call("handleDownload", "no-op")
    /\ UNCHANGED <<history, historyIndex, prompt, animatePrompt, isLoading,
                   loadingMessage, error, editHotspot, activeTab, completedCrop,
                   task>>

(***************************************************************************)
(* Gateway operation kinds.  Each kind is named by the context string its  *)
(* service function hands to handleApiResponse ("video" for animate).      *)
(***************************************************************************)
SyncKinds == {"edit", "filter", "adjustment", "3dview", "background removal",
              "photo restoration", "group photo restoration"}
Kinds == SyncKinds \cup {"video"}

\* Text the catch block puts in front of the thrown message.
FailurePrefix(kind) ==
    CASE kind = "edit" -> "Failed to generate the image. "
      [] kind = "filter" -> "Failed to apply the filter. "
      [] kind = "adjustment" -> "Failed to apply the adjustment. "
      [] kind = "3dview" -> "Failed to generate the 3D view. "
      [] kind = "video" -> "Failed to generate the video. "
      [] kind = "background removal" -> "Failed to remove background. "
      [] kind = "photo restoration" -> "Failed to restore photo. "
      [] kind = "group photo restoration" -> "Failed to restore group photo. "

\* The kinds whose finally block sets the loading message back.
ResetsLoadingMessage ==
    {"video", "background removal", "photo restoration", "group photo restoration"}

\* setError with the handler's own text alone.
ErrorOfPrefixOnly(prefix, message) == Some([prefix |-> prefix, message |-> Null])

\* A surfaced error: the handler's own text and the thrown message, if any.
ErrorOf(prefix, message) == Some([prefix |-> prefix, message |-> message])

\* Reject in a handler that calls setIsLoading(true) before its checks.
RejectWhileLoading(handler, text) ==
    /\ error' = ErrorOf(text, Null)
    /\ isLoading' = TRUE
    /\ last' = Call(handler, "rejected")
    /\ UNCHANGED <<history, historyIndex, prompt, animatePrompt,
                   loadingMessage, editHotspot, activeTab, completedCrop, task>>

\* An early return of a handler: only the error is set.
Reject(handler, text) ==
    /\ error' = ErrorOf(text, Null)
    /\ last' = Call(handler, "rejected")
    /\ UNCHANGED <<history, historyIndex, prompt, animatePrompt, isLoading,
                   loadingMessage, editHotspot, activeTab, completedCrop, task>>

\* The activation of the service function a handler awaits: the await it
\* is suspended at (pc), what the environment does to it (input: an
\* ImageOutcome or a VideoScript, once known), the video operation last
\* reported, the attempts counter, the sleeps started, the status queries
\* issued, whether the download was requested, the progress notifications
\* emitted, and what the promise settled with (pc "returned" or "threw").
ServiceCall(pc, input, operation, attempts, sleeps, queries, fetched, progress, result) ==
    [pc |-> pc, input |-> input, operation |-> operation,
     attempts |-> attempts, sleeps |-> sleeps, queries |-> queries,
     fetched |-> fetched, progress |-> progress, result |-> result]

\* The service function up to its first await, of fileToPart.
Started(kind) ==
    ServiceCall("fileToPart", Null, Null, 0, 0, 0, FALSE,
                IF kind = "video"
                THEN <<Progress("Initializing video generation...", 0)>>
                ELSE <<>>,
                Null)

\* The handler passes its checks and suspends at its await of the service
\* function.  Its closure holds the currentImage of this render and, through
\* addImageToHistory, the history and historyIndex of this render.
Dispatch(handler, kind, message) ==
    /\ isLoading' = TRUE
    /\ loadingMessage' = message
    /\ error' = Null
    /\ task' = Some([kind |-> kind, handler |-> handler,
                     currentImage |-> currentImage[1],
                     history |-> history, historyIndex |-> historyIndex,
                     service |-> Started(kind)])
    /\ last' = Call(handler, "dispatched")
    /\ UNCHANGED <<history, historyIndex, prompt, animatePrompt, editHotspot,
                   activeTab, completedCrop>>

handleGenerate ==
    IF currentImage = Null \/ isCurrentItemVideo
    THEN Reject("handleGenerate", "No image loaded to edit.")
    ELSE IF trim(prompt) = <<>>
    THEN Reject("handleGenerate", "Please enter a description for your edit.")
    ELSE IF editHotspot = Null
    THEN Reject("handleGenerate", "Please click on the image to select an area to edit.")
    ELSE Dispatch("handleGenerate", "edit", DefaultLoading)

handleApplyFilter(filterPrompt) ==
    IF currentImage = Null \/ isCurrentItemVideo
    THEN Reject("handleApplyFilter", "No image loaded to apply a filter to.")
    ELSE Dispatch("handleApplyFilter", "filter", DefaultLoading)

handleApplyAdjustment(adjustmentPrompt) ==
    IF currentImage = Null \/ isCurrentItemVideo
    THEN Reject("handleApplyAdjustment", "No image loaded to apply an adjustment to.")
    ELSE Dispatch("handleApplyAdjustment", "adjustment", DefaultLoading)

handleGenerate3DView ==
    IF currentImage = Null \/ isCurrentItemVideo
    THEN Reject("handleGenerate3DView", "No image loaded to generate a 3D view from.")
    ELSE Dispatch("handleGenerate3DView", "3dview", DefaultLoading)

\* generateVideoFromImage reports 'Initializing video generation...' before
\* its first await.
handleGenerateVideo(videoPrompt) ==
    IF currentImage = Null \/ isCurrentItemVideo
    THEN Reject("handleGenerateVideo", "No image loaded to animate.")
    ELSE IF trim(videoPrompt) = <<>>
    THEN Reject("handleGenerateVideo", "Please enter a description for the animation.")
    ELSE Dispatch("handleGenerateVideo", "video",
                  LoadingText("Initializing video generation...", 0))

\* handleRemoveBackground with the test !currentImage alone.
handleRemoveBackgroundOnVideo ==
    IF currentImage = Null
    THEN Reject("handleRemoveBackground", "No image loaded to remove background from.")
    ELSE Dispatch("handleRemoveBackground", "background removal",
                  LoadingText("AI is removing the background...", 0))

handleRemoveBackground ==
    IF currentImage = Null \/ isCurrentItemVideo
    THEN Reject("handleRemoveBackground", "No image loaded to remove background from.")
    ELSE Dispatch("handleRemoveBackground", "background removal",
                  LoadingText("AI is removing the background...", 0))

handleRestorePhoto ==
    IF currentImage = Null \/ isCurrentItemVideo
    THEN Reject("handleRestorePhoto", "No image loaded to restore.")
    ELSE Dispatch("handleRestorePhoto", "photo restoration",
                  LoadingText("AI is restoring your photo...", 0))

handleGroupRestorePhoto ==
    IF currentImage = Null \/ isCurrentItemVideo
    THEN Reject("handleGroupRestorePhoto", "No image loaded to restore.")
    ELSE Dispatch("handleGroupRestorePhoto", "group photo restoration",
                  LoadingText("AI is restoring your group photo...", 0))

(***************************************************************************)
(* Resumption of the suspended handler when the promise it awaits settles  *)
(***************************************************************************)
\* Finish with setHistory(newHistory) ahead of the await: the history is cut
\* back to the closure's prefix also when the service function throws.
FinishCutsBackFirst(t, result) ==
    /\ task' = Null
    /\ isLoading' = FALSE
    /\ loadingMessage' = IF t.kind \in ResetsLoadingMessage
                         THEN DefaultLoading ELSE loadingMessage
    /\ IF result.ok
       THEN LET new == addImageToHistory(t.history, t.historyIndex, result.value[1])
            IN  /\ history' = new.history
                /\ historyIndex' = new.historyIndex
                /\ completedCrop' = Null
                /\ editHotspot' = IF t.kind = "edit" THEN Null ELSE editHotspot
                /\ animatePrompt' = IF t.kind = "video" THEN <<>> ELSE animatePrompt
                /\ error' = error
                /\ last' = Call(t.handler, "success")
       ELSE /\ history' = SubSeq(t.history, 1, t.historyIndex + 1)
            /\ historyIndex' = t.historyIndex
            /\ error' = ErrorOf(FailurePrefix(t.kind), result.message)
            /\ last' = Call(t.handler, "failed")
            /\ UNCHANGED <<completedCrop, editHotspot, animatePrompt>>
    /\ UNCHANGED <<prompt, activeTab>>

\* Finish appending to the history of the render in which the promise
\* settles instead of the one captured at dispatch.
FinishOnCurrentHistory(t, result) ==
    /\ task' = Null
    /\ isLoading' = FALSE
    /\ loadingMessage' = IF t.kind \in ResetsLoadingMessage
                         THEN DefaultLoading ELSE loadingMessage
    /\ IF result.ok
       THEN LET new == addImageToHistory(history, historyIndex, result.value[1])
            IN  /\ history' = new.history
                /\ historyIndex' = new.historyIndex
                /\ completedCrop' = Null
                /\ editHotspot' = IF t.kind = "edit" THEN Null ELSE editHotspot
                /\ animatePrompt' = IF t.kind = "video" THEN <<>> ELSE animatePrompt
                /\ error' = error
                /\ last' = Call(t.handler, "success")
       ELSE /\ error' = ErrorOf(FailurePrefix(t.kind), result.message)
            /\ last' = Call(t.handler, "failed")
            /\ UNCHANGED <<history, historyIndex, completedCrop, editHotspot,
                           animatePrompt>>
    /\ UNCHANGED <<prompt, activeTab>>

\* Finish with a catch block that starts the service call again.
FinishRetries(t, result) ==
    IF result.ok
    THEN LET new == addImageToHistory(t.history, t.historyIndex, result.value[1])
         IN  /\ task' = Null
             /\ isLoading' = FALSE
             /\ loadingMessage' = IF t.kind \in ResetsLoadingMessage
                                  THEN DefaultLoading ELSE loadingMessage
             /\ history' = new.history
             /\ historyIndex' = new.historyIndex
             /\ completedCrop' = Null
             /\ editHotspot' = IF t.kind = "edit" THEN Null ELSE editHotspot
             /\ animatePrompt' = IF t.kind = "video" THEN <<>> ELSE animatePrompt
             /\ last' = Call(t.handler, "success")
             /\ UNCHANGED <<error, prompt, activeTab>>
    ELSE /\ task' = Some([t EXCEPT !.service = Started(t.kind)])
         /\ error' = ErrorOf(FailurePrefix(t.kind), result.message)
         /\ last' = Call(t.handler, "failed")
         /\ UNCHANGED <<history, historyIndex, completedCrop, editHotspot,
                        animatePrompt, prompt, activeTab, isLoading,
                        loadingMessage>>

\* The rest of the handler's try / catch / finally, given what the awaited
\* service function (and dataURLtoFile) returned or threw.
Finish(t, result) ==
    /\ task' = Null
    /\ isLoading' = FALSE
    /\ loadingMessage' = IF t.kind \in ResetsLoadingMessage
                         THEN DefaultLoading ELSE loadingMessage
    /\ IF result.ok
       THEN LET new == addImageToHistory(t.history, t.historyIndex, result.value[1])
            IN  /\ history' = new.history
                /\ historyIndex' = new.historyIndex
                /\ completedCrop' = Null
                /\ editHotspot' = IF t.kind = "edit" THEN Null ELSE editHotspot
                /\ animatePrompt' = IF t.kind = "video" THEN <<>> ELSE animatePrompt
                /\ error' = error
                /\ last' = Call(t.handler, "success")
       ELSE /\ error' = ErrorOf(FailurePrefix(t.kind), result.message)
            /\ last' = Call(t.handler, "failed")
            /\ UNCHANGED <<history, historyIndex, completedCrop, editHotspot,
                           animatePrompt>>
    /\ UNCHANGED <<prompt, activeTab>>

\* The promise of a synchronous service function settles: the handler gets
\* the data URL and converts it, or catches what was thrown.
GenerateImageSettles ==
    /\ task # Null /\ task[1].kind \in SyncKinds
    /\ \E outcome \in ImageOutcomes :
        LET url == generateImage(task[1].kind, outcome)
        IN  IF url.ok
            THEN Finish(task[1], dataURLtoFile(url.value[1]))
            ELSE Finish(task[1], url)

\* The promise of generateVideoFromImage settles.
\* The progress callback's setLoadingMessage calls during the run are in
\* generateVideoFromImage(script).progress; loadingMessage keeps the text
\* set at dispatch until the promise settles.
GenerateVideoSettles ==
    /\ task # Null /\ task[1].kind = "video"
    /\ \E script \in VideoScripts :
        Finish(task[1], generateVideoFromImage(script).result)

(***************************************************************************)
(* The service functions await by await: each action is the settlement of  *)
(* one awaited promise and the code that runs up to the next await.        *)
(***************************************************************************)
\* The suspended handler's service call moves on; a progress notification
\* emitted on the way has set loadingMessage.
Advance(service, message) ==
    /\ task' = Some([task[1] EXCEPT !.service = service])
    /\ loadingMessage' = message
    /\ UNCHANGED <<history, historyIndex, prompt, animatePrompt, isLoading,
                   error, editHotspot, activeTab, completedCrop, last>>

\* throw new Error(m), or a rejection passed on.
Threw(service, m) ==
    [service EXCEPT !.pc = "threw", !.result = Some(Throw(m))]

\* onProgress(message)
Emit(service, text, seconds) ==
    [service EXCEPT !.progress = Append(@, Progress(text, seconds))]

\* The last notification of a call that has emitted one.
Shown(service) == service.progress[Len(service.progress)]

\* await fileToPart(originalImage) of a generateContent-based function.
ImageReaderSettles ==
    /\ task # Null /\ task[1].kind \in SyncKinds
    /\ task[1].service.pc = "fileToPart"
    /\ LET service == task[1].service
           failed == ImageOutcome("reader error", Null)
       IN  \/ Advance([service EXCEPT
                           !.pc = "threw", !.input = Some(failed),
                           !.result = Some(generateImage(task[1].kind, failed))],
                      loadingMessage)
           \/ Advance([service EXCEPT !.pc = "generateContent"], loadingMessage)

\* Further inline image parts a reply can carry: the bytes 255 and 129, 0,
\* three zero bytes, an unpadded text, two groups of characters, and an
\* empty text, as PNG or JPEG.
PayloadTexts ==
    {<<"/", "w", "=", "=">>, <<"g", "Q", "A", "=">>, <<"A", "A", "A", "A">>,
     <<"Q", "Q">>, <<"/", "w", "/", "w", "Q", "Q", "=", "=">>, <<>>}
ServiceOutcomes ==
    ImageOutcomes
        \cup {ImageOutcome("response",
                           Some(Response("", "", Some(InlineData(m, d)), "STOP", Null))) :
                 m \in {ImagePng, ImageJpeg}, d \in PayloadTexts}

\* await ai.models.generateContent(...), then handleApiResponse.
ImageRequestSettles ==
    /\ task # Null /\ task[1].kind \in SyncKinds
    /\ task[1].service.pc = "generateContent"
    /\ \E outcome \in ServiceOutcomes :
        /\ outcome.step # "reader error"
        /\ LET result == generateImage(task[1].kind, outcome)
           IN  Advance([task[1].service EXCEPT
                            !.pc = IF result.ok THEN "returned" ELSE "threw",
                            !.input = Some(outcome),
                            !.result = Some(result)],
                       loadingMessage)

\* AfterReply with the loop test attempts <= maxAttempts.
AfterReplyOneMore(service, operation) ==
    LET s == [service EXCEPT !.operation = Some(operation)]
    IN  IF ~operation.done /\ s.attempts <= maxAttempts
        THEN [s EXCEPT !.pc = "setTimeout", !.sleeps = @ + 1]
        ELSE IF ~operation.done
        THEN Threw(s, Message("Video generation timed out after 5 minutes.",
                              "", "", "", <<>>))
        ELSE IF operation.error # ""
        THEN Threw(s, Message("Video generation failed: ", "",
                              operation.error, "", <<>>))
        ELSE IF operation.uri = ""
        THEN Threw(s, Message("Video generation finished, but no download link was provided.",
                              "", "", "", <<>>))
        ELSE [Emit(s, "Downloading generated video...", 0)
                 EXCEPT !.pc = "fetch", !.fetched = TRUE]

\* AfterReply without the test for an operation that is still not done.
AfterReplyWithoutTimeout(service, operation) ==
    LET s == [service EXCEPT !.operation = Some(operation)]
    IN  IF ~operation.done /\ s.attempts < maxAttempts
        THEN [s EXCEPT !.pc = "setTimeout", !.sleeps = @ + 1]
        ELSE IF operation.error # ""
        THEN Threw(s, Message("Video generation failed: ", "",
                              operation.error, "", <<>>))
        ELSE IF operation.uri = ""
        THEN Threw(s, Message("Video generation finished, but no download link was provided.",
                              "", "", "", <<>>))
        ELSE [Emit(s, "Downloading generated video...", 0)
                 EXCEPT !.pc = "fetch", !.fetched = TRUE]

\* AfterReply without the test of the operation's error field.
AfterReplyIgnoresError(service, operation) ==
    LET s == [service EXCEPT !.operation = Some(operation)]
    IN  IF ~operation.done /\ s.attempts < maxAttempts
        THEN [s EXCEPT !.pc = "setTimeout", !.sleeps = @ + 1]
        ELSE IF ~operation.done
        THEN Threw(s, Message("Video generation timed out after 5 minutes.",
                              "", "", "", <<>>))
        ELSE IF operation.uri = ""
        THEN Threw(s, Message("Video generation finished, but no download link was provided.",
                              "", "", "", <<>>))
        ELSE [Emit(s, "Downloading generated video...", 0)
                 EXCEPT !.pc = "fetch", !.fetched = TRUE]

\* AfterReply with the download announced before the link is tested.
AfterReplyAnnouncesFirst(service, operation) ==
    LET s == [service EXCEPT !.operation = Some(operation)]
    IN  IF ~operation.done /\ s.attempts < maxAttempts
        THEN [s EXCEPT !.pc = "setTimeout", !.sleeps = @ + 1]
        ELSE IF ~operation.done
        THEN Threw(s, Message("Video generation timed out after 5 minutes.",
                              "", "", "", <<>>))
        ELSE IF operation.error # ""
        THEN Threw(s, Message("Video generation failed: ", "",
                              operation.error, "", <<>>))
        ELSE IF operation.uri = ""
        THEN Threw(Emit(s, "Downloading generated video...", 0), Message("Video generation finished, but no download link was provided.",
                              "", "", "", <<>>))
        ELSE [Emit(s, "Downloading generated video...", 0)
                 EXCEPT !.pc = "fetch", !.fetched = TRUE]

\* AfterReply reporting the timeout whenever the counter has reached the
\* ceiling.
AfterReplyTimeoutOnCount(service, operation) ==
    LET s == [service EXCEPT !.operation = Some(operation)]
    IN  IF ~operation.done /\ s.attempts < maxAttempts
        THEN [s EXCEPT !.pc = "setTimeout", !.sleeps = @ + 1]
        ELSE IF s.attempts >= maxAttempts
        THEN Threw(s, Message("Video generation timed out after 5 minutes.",
                              "", "", "", <<>>))
        ELSE IF operation.error # ""
        THEN Threw(s, Message("Video generation failed: ", "",
                              operation.error, "", <<>>))
        ELSE IF operation.uri = ""
        THEN Threw(s, Message("Video generation finished, but no download link was provided.",
                              "", "", "", <<>>))
        ELSE [Emit(s, "Downloading generated video...", 0)
                 EXCEPT !.pc = "fetch", !.fetched = TRUE]

\* AfterReply with a loop test that does not look at the attempts counter.
AfterReplyUnbounded(service, operation) ==
    LET s == [service EXCEPT !.operation = Some(operation)]
    IN  IF ~operation.done
        THEN [s EXCEPT !.pc = "setTimeout", !.sleeps = @ + 1]
        ELSE IF operation.error # ""
        THEN Threw(s, Message("Video generation failed: ", "",
                              operation.error, "", <<>>))
        ELSE IF operation.uri = ""
        THEN Threw(s, Message("Video generation finished, but no download link was provided.",
                              "", "", "", <<>>))
        ELSE [Emit(s, "Downloading generated video...", 0)
                 EXCEPT !.pc = "fetch", !.fetched = TRUE]

\* AfterReply without the test of the download link.
AfterReplyWithoutLinkTest(service, operation) ==
    LET s == [service EXCEPT !.operation = Some(operation)]
    IN  IF ~operation.done /\ s.attempts < maxAttempts
        THEN [s EXCEPT !.pc = "setTimeout", !.sleeps = @ + 1]
        ELSE IF ~operation.done
        THEN Threw(s, Message("Video generation timed out after 5 minutes.",
                              "", "", "", <<>>))
        ELSE IF operation.error # ""
        THEN Threw(s, Message("Video generation failed: ", "",
                              operation.error, "", <<>>))
        ELSE [Emit(s, "Downloading generated video...", 0)
                 EXCEPT !.pc = "fetch", !.fetched = TRUE]

\* generateVideoFromImage from the while test on, once `operation` has its
\* value: another round of the loop, one of the three throws, or the fetch.
AfterReply(service, operation) ==
    LET s == [service EXCEPT !.operation = Some(operation)]
    IN  IF ~operation.done /\ s.attempts < maxAttempts
        THEN [s EXCEPT !.pc = "setTimeout", !.sleeps = @ + 1]
        ELSE IF ~operation.done
        THEN Threw(s, Message("Video generation timed out after 5 minutes.",
                              "", "", "", <<>>))
        ELSE IF operation.error # ""
        THEN Threw(s, Message("Video generation failed: ", "",
                              operation.error, "", <<>>))
        ELSE IF operation.uri = ""
        THEN Threw(s, Message("Video generation finished, but no download link was provided.",
                              "", "", "", <<>>))
        ELSE [Emit(s, "Downloading generated video...", 0)
                 EXCEPT !.pc = "fetch", !.fetched = TRUE]

\* await fileToPart(originalImage) of generateVideoFromImage.
VideoReaderSettles ==
    /\ task # Null /\ task[1].kind = "video"
    /\ task[1].service.pc = "fileToPart"
    /\ \E script \in VideoScripts :
        LET s == [task[1].service EXCEPT !.input = Some(script)]
        IN  IF ~script.reader
            THEN Advance(Threw(s, UnknownError), loadingMessage)
            ELSE LET next == Emit([s EXCEPT !.pc = "generateVideos"],
                                  "Sending request to the video model...", 0)
                 IN  Advance(next, Shown(next))

\* GenerateVideosSettles before a do-while loop: one sleep and one status
\* query whatever the first reply says.
GenerateVideosSettlesSleepsFirst ==
    /\ task # Null /\ task[1].service.pc = "generateVideos"
    /\ LET service == task[1].service
           reply == Reply(service.input[1], 0)
       IN  IF reply = Null
           THEN Advance(Threw(service, TransportError), loadingMessage)
           ELSE LET next == [Emit(service,
                                  "AI is creating your video. This may take a few minutes...",
                                  0)
                                EXCEPT !.operation = reply,
                                       !.pc = "setTimeout",
                                       !.sleeps = @ + 1]
                IN  Advance(next, Shown(next))

\* await ai.models.generateVideos(...)
GenerateVideosSettles ==
    /\ task # Null /\ task[1].service.pc = "generateVideos"
    /\ LET service == task[1].service
           reply == Reply(service.input[1], 0)
       IN  IF reply = Null
           THEN Advance(Threw(service, TransportError), loadingMessage)
           ELSE LET next == AfterReply(
                                Emit(service,
                                     "AI is creating your video. This may take a few minutes...",
                                     0),
                                reply[1])
                IN  Advance(next, Shown(next))

\* SleepEnds announcing the time elapsed before the sleep that just ended.
SleepEndsElapsedBefore ==
    /\ task # Null /\ task[1].service.pc = "setTimeout"
    /\ LET service == task[1].service
           next == Emit([service EXCEPT !.pc = "getVideosOperation",
                                        !.queries = @ + 1],
                        "Checking progress (s elapsed)...",
                        service.attempts * 10)
       IN  Advance(next, Shown(next))

\* await new Promise(resolve => setTimeout(resolve, pollInterval)), then the
\* notification and the status query.
SleepEnds ==
    /\ task # Null /\ task[1].service.pc = "setTimeout"
    /\ LET service == task[1].service
           next == Emit([service EXCEPT !.pc = "getVideosOperation",
                                        !.queries = @ + 1],
                        "Checking progress (s elapsed)...",
                        (service.attempts + 1) * 10)
       IN  Advance(next, Shown(next))

\* await ai.operations.getVideosOperation(...), then attempts++.
QuerySettles ==
    /\ task # Null /\ task[1].service.pc = "getVideosOperation"
    /\ LET service == task[1].service
           reply == Reply(service.input[1], service.attempts + 1)
       IN  IF reply = Null
           THEN Advance(Threw(service, TransportError), loadingMessage)
           ELSE LET next == AfterReply([service EXCEPT !.attempts = @ + 1],
                                       reply[1])
                IN  Advance(next, Shown(next))

\* FetchSettles without the response.ok test.
FetchSettlesIgnoresStatus ==
    /\ task # Null /\ task[1].service.pc = "fetch"
    /\ LET service == task[1].service
           download == service.input[1].download
       IN  IF download = "fetch throws"
           THEN Advance(Threw(service, TransportError), loadingMessage)
           ELSE Advance([service EXCEPT !.pc = "blob"], loadingMessage)

\* await fetch(`${downloadLink}&key=...`), then the response.ok test.
FetchSettles ==
    /\ task # Null /\ task[1].service.pc = "fetch"
    /\ LET service == task[1].service
           download == service.input[1].download
       IN  IF download = "fetch throws"
           THEN Advance(Threw(service, TransportError), loadingMessage)
           ELSE IF download = "not ok"
           THEN Advance(Threw(service, Message("Failed to download video: ", "",
                                               "Forbidden", "", <<>>)),
                        loadingMessage)
           ELSE Advance([service EXCEPT !.pc = "blob"], loadingMessage)

\* await response.blob(), then the File is returned.
BlobSettles ==
    /\ task # Null /\ task[1].service.pc = "blob"
    /\ LET service == task[1].service
       IN  IF service.input[1].download = "blob throws"
           THEN Advance(Threw(service, TransportError), loadingMessage)
           ELSE LET next == Emit([service EXCEPT
                                      !.pc = "returned",
                                      !.result = Some(Ok(File(VideoBytes, VideoMp4)))],
                                 "Video downloaded successfully!", 0)
                IN  Advance(next, Shown(next))

\* The promise the handler awaits has settled.
Settled == task # Null /\ task[1].service.pc \in {"returned", "threw"}

\* The handler resumes after its await with what the promise settled with.
HandlerResumes ==
    /\ Settled
    /\ LET result == task[1].service.result[1]
       IN  IF task[1].kind \in SyncKinds /\ result.ok
           THEN Finish(task[1], dataURLtoFile(result.value[1]))
           ELSE Finish(task[1], result)

(***************************************************************************)
(* What is rendered                                                        *)
(***************************************************************************)
\* renderContent: the error box, the start screen, or the editor.
ShowsError == error # Null
ShowsStartScreen == error = Null /\ currentImage = Null
ShowsEditor == error = Null /\ currentImage # Null
\* The tab bar and the panels are rendered for an image head only.
ShowsPanels == ShowsEditor /\ ~isCurrentItemVideo
\* imgRef.current: the <img> element exists exactly when panels are shown.
imgRefCurrent == ShowsPanels

(***************************************************************************)
(* Crop (synchronous, no Gateway)                                          *)
(***************************************************************************)
\* base64 text of the canvas bitmap: "/w==".
CanvasText == <<"/", "w", "=", "=">>
CropRectangles == {[width |-> 0], [width |-> 40]}
\* A rectangle the user drags out.
DraggedRectangles == {[width |-> 40]}

\* canvas.toDataURL('image/png'); a canvas without area yields "data:,".
toDataURL(width) ==
    IF width = 0 THEN <<"d", "a", "t", "a", ":", ",">>
    ELSE DataUrl(ImagePng, CanvasText)

handleApplyCrop(ctxAvailable) ==
    IF completedCrop = Null \/ ~imgRefCurrent
    THEN Reject("handleApplyCrop", "Please select an area to crop.")
    ELSE IF ~ctxAvailable
    THEN Reject("handleApplyCrop", "Could not process the crop.")
    ELSE LET newImageFile == dataURLtoFile(toDataURL(completedCrop[1].width))
         IN  IF newImageFile.ok
             THEN LET new == addImageToHistory(history, historyIndex,
                                               newImageFile.value[1])
                  IN  /\ history' = new.history
                      /\ historyIndex' = new.historyIndex
                      /\ completedCrop' = Null
                      /\ last' = Call("handleApplyCrop", "success")
                      /\ UNCHANGED <<prompt, animatePrompt, isLoading,
                                     loadingMessage, error, editHotspot,
                                     activeTab, task>>
             ELSE \* dataURLtoFile throws and nothing catches it
                  /\ last' = Call("handleApplyCrop", "threw")
                  /\ UNCHANGED <<history, historyIndex, prompt, animatePrompt,
                                 isLoading, loadingMessage, error, editHotspot,
                                 activeTab, completedCrop, task>>

(***************************************************************************)
(* Small state setters wired to the controls                               *)
(***************************************************************************)
setActiveTab(tab) ==
    /\ activeTab' = tab
    /\ last' = Setter
    /\ UNCHANGED <<history, historyIndex, prompt, animatePrompt, isLoading,
                   loadingMessage, error, editHotspot, completedCrop, task>>

Hotspot == [x |-> 10, y |-> 20]

handleImageClick ==
    /\ IF activeTab # "retouch" \/ isCurrentItemVideo
       THEN /\ UNCHANGED editHotspot
            /\ last' = Call("handleImageClick", "ignored")
       ELSE /\ editHotspot' = Some(Hotspot)
            /\ last' = Call("handleImageClick", "done")
    /\ UNCHANGED <<history, historyIndex, prompt, animatePrompt, isLoading,
                   loadingMessage, error, activeTab, completedCrop, task>>

setPrompt(text) ==
    /\ prompt' = text
    /\ last' = Setter
    /\ UNCHANGED <<history, historyIndex, animatePrompt, isLoading,
                   loadingMessage, error, editHotspot, activeTab,
                   completedCrop, task>>

setAnimatePrompt(text) ==
    /\ animatePrompt' = text
    /\ last' = Setter
    /\ UNCHANGED <<history, historyIndex, prompt, isLoading, loadingMessage,
                   error, editHotspot, activeTab, completedCrop, task>>

setCompletedCrop(c) ==
    /\ completedCrop' = Some(c)
    /\ last' = Setter
    /\ UNCHANGED <<history, historyIndex, prompt, animatePrompt, isLoading,
                   loadingMessage, error, editHotspot, activeTab, task>>

\* The "Try Again" button of the error box.
DismissError ==
    /\ ShowsError
    /\ error' = Null
    /\ last' = Setter
    /\ UNCHANGED <<history, historyIndex, prompt, animatePrompt, isLoading,
                   loadingMessage, editHotspot, activeTab, completedCrop, task>>

(***************************************************************************)
(* The application as the user drives it: a handler runs when the control  *)
(* it is wired to is rendered and enabled.                                 *)
(***************************************************************************)
\* An append may still grow the history (the bound of the model).
WithinBound == historyIndex + 1 < MaxHistory

\* StartScreen's file input.
SelectFile == ShowsStartScreen /\ \E files \in FileLists : handleFileSelect(files)

ClickUndo == ShowsEditor /\ canUndo /\ handleUndo
ClickRedo == ShowsEditor /\ canRedo /\ handleRedo
ClickReset == ShowsEditor /\ canUndo /\ handleReset
ClickUploadNew == ShowsEditor /\ handleUploadNew

ClickTab == ShowsPanels /\ \E tab \in Tabs : setActiveTab(tab)

\* The spinner overlay covers the image while isLoading; the crop tab
\* renders an image without a click handler.
ClickImage ==
    ShowsPanels /\ ~isLoading /\ activeTab # "crop" /\ handleImageClick

TypePrompt ==
    /\ ShowsPanels /\ activeTab = "retouch" /\ ~isLoading /\ editHotspot # Null
    /\ \E text \in TypedPrompts : setPrompt(text)

TypeAnimatePrompt ==
    /\ ShowsPanels /\ activeTab = "animate" /\ ~isLoading
    /\ \E text \in TypedPrompts : setAnimatePrompt(text)

\* ReactCrop's onComplete.
DragCrop ==
    /\ ShowsPanels /\ activeTab = "crop" /\ ~isLoading
    /\ \E c \in DraggedRectangles : setCompletedCrop(c)

\* CropPanel, FilterPanel, AdjustmentPanel and StartScreen are imported by
\* App.tsx from components whose code is not at hand; each is given the
\* isLoading prop, and its control is taken to be disabled while isLoading,
\* as in ThreeDViewPanel, AnimatePanel, RemoveBgPanel and RestorePanel.
\* CropPanel's button: disabled while isLoading or while not isCropping.
ClickApplyCrop ==
    /\ ShowsPanels /\ activeTab = "crop" /\ ~isLoading /\ WithinBound
    /\ completedCrop # Null /\ completedCrop[1].width > 0
    /\ \E ctxAvailable \in BOOLEAN : handleApplyCrop(ctxAvailable)

SubmitEdit ==
    /\ ShowsPanels /\ activeTab = "retouch" /\ WithinBound
    /\ ~(isLoading \/ trim(prompt) = <<>> \/ editHotspot = Null)
    /\ handleGenerate

\* FilterPanel and AdjustmentPanel hand over the chosen (non-empty) prompt.
ClickApplyFilter ==
    /\ ShowsPanels /\ activeTab = "filters" /\ ~isLoading /\ WithinBound
    /\ \E text \in Prompts \ {<<>>} : handleApplyFilter(text)

ClickApplyAdjustment ==
    /\ ShowsPanels /\ activeTab = "adjust" /\ ~isLoading /\ WithinBound
    /\ \E text \in Prompts \ {<<>>} : handleApplyAdjustment(text)

ClickGenerate3DView ==
    ShowsPanels /\ activeTab = "threeD" /\ ~isLoading /\ WithinBound
        /\ handleGenerate3DView

SubmitAnimate ==
    /\ ShowsPanels /\ activeTab = "animate" /\ WithinBound
    /\ ~(isLoading \/ trim(animatePrompt) = <<>>)
    /\ handleGenerateVideo(animatePrompt)

ClickRemoveBackground ==
    ShowsPanels /\ activeTab = "removeBg" /\ ~isLoading /\ WithinBound
        /\ handleRemoveBackground

\* ClickRestorePhoto with a button that stays enabled while loading.
ClickRestorePhotoWhileLoading ==
    ShowsPanels /\ activeTab = "restore" /\ WithinBound
        /\ handleRestorePhoto

ClickRestorePhoto ==
    ShowsPanels /\ activeTab = "restore" /\ ~isLoading /\ WithinBound
        /\ handleRestorePhoto

ClickGroupRestorePhoto ==
    ShowsPanels /\ activeTab = "groupRestore" /\ ~isLoading /\ WithinBound
        /\ handleGroupRestorePhoto

Next ==
    \/ SelectFile
    \/ ClickUndo
    \/ ClickRedo
    \/ ClickReset
    \/ ClickUploadNew
    \/ ClickTab
    \/ ClickImage
    \/ TypePrompt
    \/ TypeAnimatePrompt
    \/ DragCrop
    \/ SubmitEdit
    \/ ClickGenerate3DView
    \/ SubmitAnimate
    \/ ClickRemoveBackground
    \/ ClickRestorePhoto
    \/ ClickGroupRestorePhoto
    \/ ClickApplyCrop
    \/ ClickApplyFilter
    \/ ClickApplyAdjustment
    \/ DismissError
    \/ GenerateImageSettles
    \/ GenerateVideoSettles

Spec == Init /\ [][Next]_vars

(***************************************************************************)
(* The handlers called directly, whatever is rendered: the contract of a   *)
(* handler, also in the states where its control is disabled or not shown. *)
(* A Gateway handler or the crop is still only called while no operation   *)
(* is in flight.  The tab stays where upload puts it, and the animate      *)
(* prompt is the argument of the call.                                     *)
(***************************************************************************)
CallFileSelect == \E files \in FileLists : handleFileSelect(files)
CallUndo == handleUndo
CallRedo == handleRedo
CallReset == handleReset
CallUploadNew == handleUploadNew
CallSetPrompt == \E text \in Prompts : setPrompt(text)
CallDownload == handleDownload

\* No operation in flight, and a dispatch would respect the bound.
Callable == ~isLoading /\ (WithinBound \/ isCurrentItemVideo)

CallGenerate == Callable /\ handleGenerate
CallApplyFilter == Callable /\ \E text \in Prompts : handleApplyFilter(text)
CallApplyAdjustment == Callable /\ \E text \in Prompts : handleApplyAdjustment(text)
CallGenerate3DView == Callable /\ handleGenerate3DView
CallGenerateVideo == Callable /\ \E text \in Prompts : handleGenerateVideo(text)
CallRemoveBackground == Callable /\ handleRemoveBackground
CallRestorePhoto == Callable /\ handleRestorePhoto
CallGroupRestorePhoto == Callable /\ handleGroupRestorePhoto
CallSetCompletedCrop == \E c \in CropRectangles : setCompletedCrop(c)
CallApplyCrop == Callable /\ \E ctxAvailable \in BOOLEAN : handleApplyCrop(ctxAvailable)

NextDirect ==
    \/ CallFileSelect
    \/ CallDownload
    \/ CallUndo
    \/ CallRedo
    \/ CallReset
    \/ CallUploadNew
    \/ CallSetPrompt
    \/ CallGenerate
    \/ CallApplyFilter
    \/ CallApplyAdjustment
    \/ CallGenerate3DView
    \/ CallGenerateVideo
    \/ CallRemoveBackground
    \/ CallRestorePhoto
    \/ CallGroupRestorePhoto
    \/ CallSetCompletedCrop
    \/ CallApplyCrop
    \/ ClickImage
    \/ DismissError
    \/ GenerateImageSettles
    \/ GenerateVideoSettles

SpecDirect == Init /\ [][NextDirect]_vars

(***************************************************************************)
(* One operation at a time, its service function followed await by await:  *)
(* the user uploads, clicks, types and calls a Gateway handler while no    *)
(* operation is in flight, and waits for the operation to finish.          *)
(***************************************************************************)
UploadWhenIdle == ~isLoading /\ \E files \in FileLists : handleFileSelect(files)
TypeWhenIdle == ~isLoading /\ \E text \in TypedPrompts : setPrompt(text)

NextService ==
    \/ UploadWhenIdle
    \/ TypeWhenIdle
    \/ ClickImage
    \/ DismissError
    \/ CallGenerate
    \/ CallApplyFilter
    \/ CallApplyAdjustment
    \/ CallGenerate3DView
    \/ CallGenerateVideo
    \/ CallRemoveBackground
    \/ CallRestorePhoto
    \/ CallGroupRestorePhoto
    \/ ImageReaderSettles
    \/ ImageRequestSettles
    \/ VideoReaderSettles
    \/ GenerateVideosSettles
    \/ SleepEnds
    \/ QuerySettles
    \/ FetchSettles
    \/ BlobSettles
    \/ HandlerResumes

SpecService == Init /\ [][NextService]_vars

\* A step of an animate operation: an await of generateVideoFromImage
\* settles (the FileReader finishes, a remote call returns or throws, the
\* timer fires, the body is read), or its handler resumes.
AnimateStep ==
    \/ VideoReaderSettles
    \/ GenerateVideosSettles
    \/ SleepEnds
    \/ QuerySettles
    \/ FetchSettles
    \/ BlobSettles
    \/ (task # Null /\ task[1].kind = "video" /\ HandlerResumes)

\* Every await of an animate operation settles in the end.
SpecServiceFair == Init /\ [][NextService]_vars /\ WF_vars(AnimateStep)

\* The awaits followed one by one settle as generateVideoFromImage(script)
\* says: same result, same notifications, same use of the download.
ServiceAgreesWithRun ==
    (Settled /\ task[1].kind = "video")
        => LET service == task[1].service
               run == generateVideoFromImage(service.input[1])
           IN  /\ service.result[1] = run.result
               /\ service.progress = run.progress
               /\ service.fetched = run.fetched


(***************************************************************************)
(* Properties of the History Store                                         *)
(***************************************************************************)
\* Everything but the record of the last call.
state == <<history, historyIndex, prompt, animatePrompt, isLoading,
           loadingMessage, error, editHotspot, activeTab, completedCrop, task>>

\* C1: in every reachable state head = -1 exactly when entries is empty,
\* and otherwise 0 <= head <= len(entries) - 1.
HeadWithinEntries ==
    /\ historyIndex = -1 <=> history = <<>>
    /\ history # <<>> => 0 <= historyIndex /\ historyIndex <= Len(history) - 1

\* A redo has just moved the head of a two-entry history: an upload, an
\* append and an undo came before it.
HeadWithinEntriesWitness ==
    /\ last = Call("handleRedo", "done")
    /\ Len(history) = 2 /\ historyIndex = 1

\* C2: once an original has been uploaded, entries[0] changes only in a step
\* of upload or of upload-new.
OriginalChangesOnlyOnUpload ==
    [][(originalImage # Null /\ At(history', 0) # originalImage)
          => last'.handler \in {"handleImageUpload", "handleUploadNew"}]_vars

\* C3: a successful operation that completes on a history (entries, head)
\* yields entries[0..head] followed by the new artifact, with head on it, so
\* that no redo is possible.
AppendTruncatesAtHead ==
    [][last'.path = "success"
          => /\ Len(history') = historyIndex + 2
             /\ SubSeq(history', 1, historyIndex + 1)
                    = SubSeq(history, 1, historyIndex + 1)
             /\ historyIndex' = Len(history') - 1]_vars

\* C4: when a Gateway operation ends in Refused or Failed, its completion
\* handler modifies neither entries nor head.
FailureLeavesHistory ==
    [][last'.path = "failed" => UNCHANGED <<history, historyIndex>>]_vars

\* An animate operation has timed out on a history with an entry.
FailureLeavesHistoryWitness ==
    /\ last = Call("handleGenerateVideo", "failed")
    /\ error # Null /\ error[1].message # Null
    /\ error[1].message[1].template = "Video generation timed out after 5 minutes."
    /\ history # <<>>

\* C5 as claimed: undo at head = 0 and redo at head = len(entries) - 1 leave
\* entries and head unchanged and report a failure.
RefusedUndoRedoReports ==
    [][((handleUndo /\ historyIndex = 0)
            \/ (handleRedo /\ history # <<>> /\ historyIndex = Len(history) - 1))
          => UNCHANGED <<history, historyIndex>> /\ error' # Null]_vars

\* C5: undo at head = 0 and redo at head = len(entries) - 1 change nothing:
\* entries, head and the surfaced error stay as they were, nothing is
\* reported.
RefusedUndoRedoChangesNothing ==
    [][((handleUndo /\ historyIndex = 0)
            \/ (handleRedo /\ history # <<>> /\ historyIndex = Len(history) - 1))
          => UNCHANGED state]_vars

\* An undo was called with the head on the original of a longer history.
RefusedUndoRedoWitness ==
    /\ last = Call("handleUndo", "no-op")
    /\ historyIndex = 0 /\ Len(history) = 2

\* C6: undo with head > 0 moves head down by one, redo with
\* head < len(entries) - 1 moves it up by one, and entries stays as it is.
UndoRedoMoveHeadByOne ==
    [][/\ (handleUndo /\ historyIndex > 0)
            => historyIndex' = historyIndex - 1 /\ history' = history
       /\ (handleRedo /\ historyIndex < Len(history) - 1)
            => historyIndex' = historyIndex + 1 /\ history' = history]_vars

\* An undo has moved the head of a two-entry history onto the original.
UndoRedoMoveHeadByOneWitness ==
    /\ last = Call("handleUndo", "done")
    /\ Len(history) = 2 /\ historyIndex = 0

\* C7: reset on a non-empty history sets head to 0 and leaves entries as it
\* is, so that a redo is possible when there is more than one entry; reset
\* on an empty history changes nothing.
ResetMovesHeadOnly ==
    [][handleReset
          => /\ history' = history
             /\ history # <<>> => historyIndex' = 0
             /\ Len(history) > 1 => historyIndex' < Len(history') - 1
             /\ history = <<>> => UNCHANGED state]_vars

\* A reset has run on a two-entry history.
ResetMovesHeadOnlyWitness ==
    /\ last = Call("handleReset", "done")
    /\ Len(history) = 2 /\ historyIndex = 0

\* C8: upload of a file, from any state, makes the history the single entry
\* [file] with head = 0 and no Hotspot.
UploadReplacesHistory ==
    [][\A file \in UploadFiles :
          handleFileSelect(Some(file))
              => /\ history' = <<file>>
                 /\ historyIndex' = 0
                 /\ editHotspot' = Null]_vars

\* The video clip has been uploaded.
UploadReplacesHistoryWitness ==
    /\ last = Call("handleImageUpload", "done")
    /\ history = <<UploadV>> /\ historyIndex = 0 /\ editHotspot = Null

\* C9 as claimed: upload without a file surfaces an error and leaves entries
\* and head unchanged.
UploadWithoutFileReports ==
    [][handleFileSelect(Null)
          => UNCHANGED <<history, historyIndex>> /\ error' # Null]_vars

\* C9: upload without a file changes nothing: entries, head and the
\* surfaced error stay as they were, no error is reported.
UploadWithoutFileChangesNothing ==
    [][handleFileSelect(Null) => UNCHANGED state]_vars

\* The file dialog was closed without a file while a history exists.
UploadWithoutFileWitness ==
    /\ last = Call("handleFileSelect", "no file")
    /\ history # <<>>

\* C10: upload-new leaves entries empty and head = -1, and current() and
\* original() are then both empty.
UploadNewEmptiesHistory ==
    [][handleUploadNew
          => /\ history' = <<>>
             /\ historyIndex' = -1
             /\ At(history', historyIndex') = Null
             /\ At(history', 0) = Null]_vars

\* Upload New was clicked.
UploadNewEmptiesHistoryWitness ==
    /\ last = Call("handleUploadNew", "done")
    /\ history = <<>> /\ historyIndex = -1
    /\ currentImage = Null /\ originalImage = Null

\* C11: the edit Hotspot is null after every successful append of any kind
\* (crop included), after every effective undo and redo, and after every
\* upload.
HotspotClearedOnAdvance ==
    [][(\/ last'.path = "success"
        \/ (last'.handler \in {"handleUndo", "handleRedo"} /\ last'.path = "done")
        \/ last'.handler = "handleImageUpload")
          => editHotspot' = Null]_vars

\* A call of a Gateway handler, of any kind and with any instruction.
GatewayCall ==
    \/ handleGenerate
    \/ \E text \in Prompts : handleApplyFilter(text)
    \/ \E text \in Prompts : handleApplyAdjustment(text)
    \/ \E text \in Prompts : handleGenerateVideo(text)
    \/ handleGenerate3DView
    \/ handleRemoveBackground
    \/ handleRestorePhoto
    \/ handleGroupRestorePhoto

\* The step rejects the request: an error is surfaced, nothing is dispatched
\* and the history is as before.
RejectedStep ==
    /\ last'.path = "rejected"
    /\ error' # Null
    /\ task' = task /\ isLoading' = isLoading
    /\ UNCHANGED <<history, historyIndex>>

\* C12: a request without a source artifact, with an empty or blank
\* instruction (edit, filter, adjustment, animate) or without a Hotspot
\* (edit) is rejected with an error, nothing is dispatched, and entries and
\* head are unchanged.
PreconditionViolationsRejected ==
    [][/\ (GatewayCall /\ currentImage = Null) => RejectedStep
       /\ (handleGenerate /\ (trim(prompt) = <<>> \/ editHotspot = Null))
             => RejectedStep
       /\ \A text \in Prompts :
             (trim(text) = <<>>
                /\ (\/ handleApplyFilter(text)
                    \/ handleApplyAdjustment(text)
                    \/ handleGenerateVideo(text)))
                => RejectedStep]_vars

\* C13: while the head artifact is a video, a call of any Gateway handler is
\* rejected with an error, dispatches nothing and leaves the history as it
\* is.
VideoHeadRejectsGateway ==
    [][(isCurrentItemVideo /\ GatewayCall) => RejectedStep]_vars

\* Background removal has been called on a video head and was rejected.
VideoHeadRejectsGatewayWitness ==
    /\ last = Call("handleRemoveBackground", "rejected")
    /\ isCurrentItemVideo
    /\ error # Null /\ task = Null

\* The response a settled generateContent-based call has classified.
Classified ==
    /\ Settled /\ task[1].kind \in SyncKinds
    /\ task[1].service.input[1].step = "response"

\* C14: a response is classified by strict priority: a block reason gives a
\* refusal carrying it, also when an image is present; otherwise an inline
\* image gives success with that image, also when the finish reason is not
\* STOP; otherwise a finish reason other than STOP gives a failure carrying
\* it; otherwise the failure for a missing image.
ClassificationPriority ==
    Classified
        => LET response == task[1].service.input[1].response[1]
               result == task[1].service.result[1]
               thrown == result.message[1]
           IN  IF response.blockReason # ""
               THEN /\ ~result.ok
                    /\ thrown.template = "Request was blocked. Reason: "
                    /\ thrown.reason = response.blockReason
               ELSE IF response.inlineData # Null
               THEN /\ result.ok
                    /\ result.value[1] = DataUrl(response.inlineData[1].mimeType,
                                                 response.inlineData[1].data)
               ELSE IF response.finishReason \notin {"", "STOP"}
               THEN /\ ~result.ok
                    /\ thrown.template = "Image generation stopped unexpectedly. Reason: "
                    /\ thrown.reason = response.finishReason
               ELSE /\ ~result.ok
                    /\ thrown.template \in
                         {"The AI model did not return an image. The model responded with text: ",
                          "The AI model did not return an image. This can happen due to safety filters"}

\* A blocked response that came with an image and a finish reason of STOP
\* has been classified as a refusal.
ClassificationPriorityWitness ==
    /\ Classified
    /\ task[1].service.input[1].response[1].blockReason = "SAFETY"
    /\ task[1].service.input[1].response[1].inlineData # Null
    /\ task[1].service.pc = "threw"

\* The settled call is a filter request whose response has a block reason.
BlockedFilter ==
    /\ Classified /\ task[1].kind = "filter"
    /\ task[1].service.input[1].response[1].blockReason # ""

\* C15: a block reason returned for a filter request makes the request fail
\* as a refusal: entries and head stay as they are and the surfaced message
\* contains the block reason.
BlockedFilterSurfacesReason ==
    [][BlockedFilter
          => /\ ~task[1].service.result[1].ok
             /\ HandlerResumes
                  => /\ UNCHANGED <<history, historyIndex>>
                     /\ last' = Call("handleApplyFilter", "failed")
                     /\ error' # Null
                     /\ error'[1].prefix = "Failed to apply the filter. "
                     /\ error'[1].message # Null
                     /\ error'[1].message[1].template = "Request was blocked. Reason: "
                     /\ error'[1].message[1].reason
                          = task[1].service.input[1].response[1].blockReason]_vars

\* The filter handler has surfaced the refusal of a request blocked for
\* "OTHER", with the service's explanation.
BlockedFilterSurfacesReasonWitness ==
    /\ last = Call("handleApplyFilter", "failed")
    /\ error # Null /\ error[1].message # Null
    /\ error[1].message[1].reason = "OTHER"
    /\ error[1].message[1].note = "blocked by policy"
    /\ history = <<UploadA>> /\ historyIndex = 0

\* The settled call got a normal completion (finish reason STOP or absent)
\* without block reason and without image.
NormalWithoutImage ==
    /\ Classified
    /\ task[1].service.input[1].response[1].blockReason = ""
    /\ task[1].service.input[1].response[1].inlineData = Null
    /\ task[1].service.input[1].response[1].finishReason \in {"", "STOP"}

\* C16: a normal completion without image fails: the message carries the
\* service's text (trimmed) when there is text, and is the generic fallback
\* when the text is absent or blank; no artifact is produced.
NormalWithoutImageFails ==
    [][NormalWithoutImage
          => LET response == task[1].service.input[1].response[1]
                 result == task[1].service.result[1]
                 said == IF response.text = Null THEN <<>>
                         ELSE trim(response.text[1])
             IN  /\ ~result.ok /\ result.value = Null
                 /\ said # <<>>
                      => /\ result.message[1].template
                              = "The AI model did not return an image. The model responded with text: "
                         /\ result.message[1].text = said
                 /\ said = <<>>
                      => /\ result.message[1].template
                              = "The AI model did not return an image. This can happen due to safety filters"
                         /\ result.message[1].text = <<>>
                 /\ HandlerResumes
                      => /\ UNCHANGED <<history, historyIndex>>
                         /\ last'.path = "failed"
                         /\ error' # Null
                         /\ error'[1].message = result.message]_vars

\* A handler has surfaced the failure that carries the service's text.
NormalWithoutImageFailsWitness ==
    /\ last.path = "failed"
    /\ error # Null /\ error[1].message # Null
    /\ error[1].message[1].template
         = "The AI model did not return an image. The model responded with text: "
    /\ error[1].message[1].text = <<"n", "o">>
    /\ history = <<UploadA>>

\* An animate operation is in flight or has just settled.
Animating == task # Null /\ task[1].kind = "video"

\* C17: in one animate operation at most maxAttempts (30) status queries are
\* issued, each right after one sleep of its own, and only while the
\* operation last reported is not done and the counter is below 30; the
\* counter goes up by one with each answered query and not otherwise.
PollLoopBounded ==
    [][Animating
          => LET s == task[1].service
             IN  /\ s.queries <= maxAttempts
                 /\ s.attempts <= s.queries /\ s.queries <= s.attempts + 1
                 /\ s.sleeps = s.queries + (IF s.pc = "setTimeout" THEN 1 ELSE 0)
                 /\ task' # Null
                      => LET t == task'[1].service
                         IN  /\ t.queries \in {s.queries, s.queries + 1}
                             /\ t.queries = s.queries + 1
                                  => /\ s.pc = "setTimeout"
                                     /\ ~s.operation[1].done
                                     /\ s.attempts < maxAttempts
                             /\ t.attempts \in {s.attempts, s.attempts + 1}
                             /\ t.attempts = s.attempts + 1
                                  <=> (s.pc = "getVideosOperation"
                                         /\ t.operation
                                              = Reply(s.input[1], s.attempts + 1)
                                         /\ Reply(s.input[1], s.attempts + 1) # Null)]_vars

\* The 30th status query is out, after 30 sleeps and 29 answers.
PollLoopBoundedWitness ==
    /\ Animating
    /\ task[1].service.pc = "getVideosOperation"
    /\ task[1].service.queries = maxAttempts
    /\ task[1].service.sleeps = maxAttempts
    /\ task[1].service.attempts = maxAttempts - 1

\* The 30th status query has been answered and the operation is not done.
StillPendingAfterLastQuery ==
    /\ Animating
    /\ task[1].service.pc # "getVideosOperation"
    /\ task[1].service.attempts = maxAttempts
    /\ ~task[1].service.operation[1].done

\* No download was requested or announced.
NoDownload ==
    /\ ~task[1].service.fetched
    /\ \A i \in 1..Len(task[1].service.progress) :
          task[1].service.progress[i].text # "Downloading generated video..."

\* The handler surfaces what the service call threw and leaves the history
\* as it is.
SurfacesFailure ==
    HandlerResumes
        => /\ UNCHANGED <<history, historyIndex>>
           /\ last' = Call("handleGenerateVideo", "failed")
           /\ error' = ErrorOf("Failed to generate the video. ",
                               task[1].service.result[1].message)

\* C18: an animate operation that is still not done after the 30th status
\* query fails with the timeout message, no download is attempted and the
\* history stays as it was.
TimeoutFails ==
    [][StillPendingAfterLastQuery
          => /\ task[1].service.pc = "threw"
             /\ task[1].service.result[1]
                  = Throw(Message("Video generation timed out after 5 minutes.",
                                  "", "", "", <<>>))
             /\ task[1].service.queries = maxAttempts
             /\ NoDownload
             /\ SurfacesFailure]_vars

\* The operation on [A] has timed out after 30 queries; the handler has not
\* resumed yet.
TimeoutFailsWitness ==
    /\ StillPendingAfterLastQuery
    /\ task[1].service.pc = "threw"
    /\ history = <<UploadA>> /\ historyIndex = 0

\* The operation was last reported done with its error field set.
DoneWithError ==
    /\ Animating /\ task[1].service.operation # Null
    /\ task[1].service.operation[1].done
    /\ task[1].service.operation[1].error # ""

\* C19: a video operation reported done with an error fails with that error
\* message, whether or not a result link came with it, and no download is
\* attempted.
OperationErrorFails ==
    [][DoneWithError
          => /\ task[1].service.pc = "threw"
             /\ task[1].service.result[1]
                  = Throw(Message("Video generation failed: ", "",
                                  task[1].service.operation[1].error, "", <<>>))
             /\ NoDownload
             /\ SurfacesFailure]_vars

\* An operation done with an error and with a result link has failed.
OperationErrorFailsWitness ==
    /\ DoneWithError
    /\ task[1].service.operation[1].uri # ""
    /\ task[1].service.pc = "threw"

\* The operation was last reported done, without error and without link.
DoneWithoutLink ==
    /\ Animating /\ task[1].service.operation # Null
    /\ task[1].service.operation[1].done
    /\ task[1].service.operation[1].error = ""
    /\ task[1].service.operation[1].uri = ""

\* C20: a video operation reported done without error and without a result
\* link fails with the no-link message; no fetch is issued and the
\* 'Downloading generated video...' notification is not emitted.
MissingLinkFails ==
    [][DoneWithoutLink
          => /\ task[1].service.pc = "threw"
             /\ task[1].service.result[1]
                  = Throw(Message("Video generation finished, but no download link was provided.",
                                  "", "", "", <<>>))
             /\ NoDownload
             /\ SurfacesFailure]_vars

\* An operation done without error and without link has failed, after one
\* status query.
MissingLinkFailsWitness ==
    /\ DoneWithoutLink
    /\ task[1].service.pc = "threw"
    /\ task[1].service.queries = 1

\* The operation was last reported done, without error and with a result
\* link.
DoneWithLink ==
    /\ Animating /\ task[1].service.operation # Null
    /\ task[1].service.operation[1].done
    /\ task[1].service.operation[1].error = ""
    /\ task[1].service.operation[1].uri # ""

\* C21: after a video operation reported done without error and with a
\* result link, a fetch answered with a non-success status makes the call
\* fail with 'Failed to download video: ' and the status text, and the
\* history stays as it was; a fetch answered with a success status whose
\* body is read yields a video/mp4 file, which is appended after the entry
\* the operation started from and becomes the head.
DownloadDecidesResult ==
    [][(DoneWithLink /\ HandlerResumes)
          => LET service == task[1].service
                 download == service.input[1].download
                 video == File(VideoBytes, VideoMp4)
             IN  /\ service.fetched
                 /\ download = "not ok"
                      => /\ service.result[1]
                              = Throw(Message("Failed to download video: ", "",
                                              "Forbidden", "", <<>>))
                         /\ SurfacesFailure
                 /\ download = "ok"
                      => /\ service.result[1] = Ok(video)
                         /\ isVideo(video)
                         /\ history' = Append(SubSeq(history, 1, historyIndex + 1),
                                              video)
                         /\ historyIndex' = Len(history') - 1
                         /\ currentImage' = Some(video)
                         /\ last' = Call("handleGenerateVideo", "success")]_vars

\* The downloaded video has been appended to the upload and is displayed.
DownloadDecidesResultWitness ==
    /\ task = Null
    /\ last = Call("handleGenerateVideo", "success")
    /\ history = <<UploadA, File(VideoBytes, VideoMp4)>>
    /\ historyIndex = 1
    /\ isCurrentItemVideo

\* The phase of an animate run, read off the activation record of
\* generateVideoFromImage.  Complete is the instant between the last reply
\* (done, no error, with a link) and the fetch, within one step.
TimedOut ==
    Throw(Message("Video generation timed out after 5 minutes.", "", "", "", <<>>))

Phase(service) ==
    CASE service.pc \in {"fileToPart", "generateVideos"} -> "Initiating"
      [] service.pc \in {"setTimeout", "getVideosOperation"} -> "Polling"
      [] service.pc \in {"fetch", "blob"} -> "Downloading"
      [] service.pc = "returned" -> "Succeeded"
      [] service.pc = "threw" /\ service.fetched -> "DownloadFailed"
      [] service.pc = "threw" /\ ~service.fetched
            /\ service.result = Some(TimedOut) -> "TimedOut"
      [] OTHER -> "Errored"

Terminal == {"Succeeded", "TimedOut", "Errored", "DownloadFailed"}

Rank(phase) ==
    CASE phase = "Initiating" -> 0
      [] phase = "Polling" -> 1
      [] phase = "Downloading" -> 2
      [] OTHER -> 3

\* C22: an animate run goes through Initiating, Polling, Downloading and one
\* terminal state in this order, never back (a run whose first reply is
\* already done has an empty Polling phase).  Downloading is entered only
\* on a reply that is done, without error and with a link (Complete);
\* Succeeded and DownloadFailed are reached only from Downloading, TimedOut
\* only from Polling after the 30th answer, Errored only before Downloading.
\* A terminal state is left only by the handler resuming, a file is
\* produced exactly in Succeeded, and only then does the history advance.
VideoPhasesInOrder ==
    [][Animating
          => LET s == task[1].service
                 p == Phase(s)
             IN  /\ (s.result # Null /\ s.result[1].ok) <=> p = "Succeeded"
                 /\ s.result # Null <=> p \in Terminal
                 /\ p \in Terminal
                      => /\ HandlerResumes /\ task' = Null
                         /\ history' # history <=> p = "Succeeded"
                 /\ p \notin Terminal
                      => /\ task' # Null /\ UNCHANGED <<history, historyIndex>>
                         /\ LET t == task'[1].service
                                q == Phase(t)
                            IN  /\ Rank(p) <= Rank(q)
                                /\ (q = "Downloading" /\ p # "Downloading")
                                     => /\ t.operation[1].done
                                        /\ t.operation[1].error = ""
                                        /\ t.operation[1].uri # ""
                                /\ q \in {"Succeeded", "DownloadFailed"}
                                     => p = "Downloading"
                                /\ q = "TimedOut"
                                     => /\ p = "Polling"
                                        /\ t.attempts = maxAttempts
                                        /\ ~t.operation[1].done
                                /\ q = "Errored" => p \in {"Initiating", "Polling"}]_vars

\* A run that polled, started the download and then failed to read the body.
VideoPhasesInOrderWitness ==
    /\ Animating
    /\ Phase(task[1].service) = "DownloadFailed"
    /\ task[1].service.queries >= 1
    /\ task[1].service.input[1].download = "blob throws"

\* The awaits at which a submit request is out.
Submitted == {"generateContent", "generateVideos"}

\* C23 as stated: every dispatched operation sends its submit request.
EveryOperationSubmits ==
    [][(task # Null /\ task[1].service.pc = "fileToPart")
          => task'[1].service.pc \in Submitted]_vars

\* C23: a service call starts only when a handler dispatches it, and once
\* its promise has settled (returned or threw) the handler ends the
\* operation: nothing is in flight and the busy flag is off until a handler
\* is called again.  A dispatched operation sends at most one submit
\* request, right after the source image was encoded, and none when the
\* encoding fails.
OneSubmitNoRetry ==
    [][/\ (task' # Null /\ task'[1].service.pc = "fileToPart")
            => /\ task = Null
               /\ last'.path = "dispatched"
       /\ (task = Null /\ task' # Null)
            => /\ last'.path = "dispatched"
               /\ task'[1].service.pc = "fileToPart"
       /\ task # Null
            => LET s == task[1].service
               IN  /\ Settled => (task' = Null /\ ~isLoading')
                   /\ (task' # Null /\ task'[1].service.pc \in Submitted)
                        => s.pc = "fileToPart"
                   /\ s.pc = "fileToPart"
                        => \/ task'[1].service.pc \in Submitted
                           \/ /\ task'[1].service.pc = "threw"
                              /\ task'[1].service.result = Some(Throw(UnknownError))]_vars

\* A failed operation has ended and nothing is in flight.
OneSubmitNoRetryWitness ==
    /\ task = Null /\ ~isLoading
    /\ last = Call("handleApplyFilter", "failed")
    /\ error # Null

NoConcurrentWriter ==
    [][(task # Null /\ <<history, historyIndex>>' # <<history, historyIndex>>)
          => /\ task' = Null
             /\ last' = Call(task[1].handler, "success")]_vars

\* A base64 decoder written on bits: the six bits of each character other
\* than '=', in order, cut into whole bytes.
RECURSIVE Sextets(_)
Sextets(text) ==
    IF text = <<>> THEN <<>>
    ELSE IF text[1] = "=" THEN Sextets(Tail(text))
    ELSE <<B64Value(text[1])>> \o Sextets(Tail(text))

Base64Decode(text) ==
    LET v == Sextets(text)
        bit(k) == (v[(k - 1) \div 6 + 1] \div 2 ^ (5 - ((k - 1) % 6))) % 2
    IN  [j \in 1..((6 * Len(v)) \div 8) |->
            LET b(i) == bit(8 * (j - 1) + i)
            IN  128 * b(1) + 64 * b(2) + 32 * b(3) + 16 * b(4)
                    + 8 * b(5) + 4 * b(6) + 2 * b(7) + b(8)]

Notified(service) ==
    <<Progress("Initializing video generation...", 0)>>
        \o (IF service.pc = "fileToPart"
               \/ (service.pc = "threw" /\ ~service.input[1].reader)
            THEN <<>>
            ELSE <<Progress("Sending request to the video model...", 0)>>)
        \o (IF service.operation = Null
            THEN <<>>
            ELSE <<Progress("AI is creating your video. This may take a few minutes...", 0)>>)
        \o [k \in 1..service.queries |->
               Progress("Checking progress (s elapsed)...", 10 * k)]
        \o (IF service.fetched
            THEN <<Progress("Downloading generated video...", 0)>>
            ELSE <<>>)
        \o (IF service.pc = "returned"
            THEN <<Progress("Video downloaded successfully!", 0)>>
            ELSE <<>>)

\* C27: the notifications of an animate run come in the order initializing,
\* submitted (once the image is encoded, before the initiate request is
\* answered), creating (once it is answered), one checkpoint per status
\* query issued, the k-th announcing 10 * k seconds, and downloading exactly
\* when the fetch is issued; a run that returns the file ends with one more
\* notification, 'Video downloaded successfully!'.  Each is shown as the
\* loading message and changes nothing else: the history, the head and the
\* error stay as they are, and the run settles as the replies alone decide.
ProgressInOrder ==
    [][Animating
          => LET s == task[1].service
             IN  /\ s.progress = Notified(s)
                 /\ s.pc = "generateVideos"
                      => s.progress[Len(s.progress)].text
                            = "Sending request to the video model..."
                 /\ task' # Null
                      => LET t == task'[1].service
                         IN  /\ Len(t.progress) >= Len(s.progress)
                             /\ SubSeq(t.progress, 1, Len(s.progress)) = s.progress
                             /\ t.progress # s.progress
                                  => loadingMessage' = t.progress[Len(t.progress)]
                             /\ UNCHANGED <<history, historyIndex, error, isLoading>>
                 /\ Settled
                      => s.result[1] = generateVideoFromImage(s.input[1]).result]_vars

\* The download is announced after the initiate reply and one checkpoint.
ProgressInOrderWitness ==
    /\ Animating
    /\ task[1].service.pc = "fetch"
    /\ task[1].service.queries = 1
    /\ Len(task[1].service.progress) = 5
    /\ loadingMessage = Progress("Downloading generated video...", 0)

\* C28: a download exports the entry at the head at the moment of the call,
\* under a name ending in mp4 when that entry is a video and in png
\* otherwise; with an empty history nothing is exported.  The history is
\* left as it is.
DownloadExportsHead ==
    [][last'.handler = "handleDownload"
          => /\ UNCHANGED <<history, historyIndex>>
             /\ IF history = <<>>
                THEN last' = Call("handleDownload", "no-op")
                ELSE LET head == history[historyIndex + 1]
                     IN  last' = Export(head,
                                        IF StartsWith(head.type, VideoPrefix)
                                        THEN "mp4" ELSE "png")]_vars

\* A generated video at the head, after the photo, was exported as mp4.
DownloadExportsHeadWitness ==
    /\ Len(history) = 2 /\ historyIndex = 1
    /\ last = Export(File(VideoBytes, VideoMp4), "mp4")

\* C29: when an operation completes with success, the history becomes the
\* entries up to the head as they were at its dispatch, followed by the
\* result, and the head is the result: the result sits right after the
\* artifact it was made from, and whatever undo, redo, reset, upload-new or
\* upload did to the history and the head during the flight is overwritten.
CompletionUsesDispatchHistory ==
    [][(task # Null /\ last'.path = "success")
          => LET t == task[1]
                 n == Len(history')
             IN  /\ task' = Null
                 /\ n = t.historyIndex + 2
                 /\ SubSeq(history', 1, n - 1)
                      = SubSeq(t.history, 1, t.historyIndex + 1)
                 /\ history'[n - 1] = t.currentImage
                 /\ historyIndex' = n - 1]_vars

\* An operation started on the photo is in flight and the user has since
\* replaced the history by an uploaded video.
CompletionUsesDispatchHistoryWitness ==
    /\ task # Null
    /\ task[1].history = <<UploadA>> /\ task[1].historyIndex = 0
    /\ history = <<UploadV>> /\ historyIndex = 0

\* C30: the busy flag is on exactly while a Gateway operation is in flight:
\* the dispatch turns it on, nothing done during the flight turns it off,
\* and the step in which the operation ends, with success or with a
\* failure (a refusal included), turns it off.  A call rejected for a
\* violated precondition leaves it off.
BusyWhileInFlight ==
    [][/\ isLoading <=> task # Null
       /\ isLoading' <=> task' # Null
       /\ (~isLoading /\ isLoading') => last'.path = "dispatched"
       /\ (isLoading /\ ~isLoading')
            => /\ last'.handler = task[1].handler
               /\ last'.path \in {"success", "failed"}
       /\ last'.path \in {"success", "failed"} => ~isLoading'
       /\ last'.path = "rejected"
            => (~isLoading /\ ~isLoading' /\ task' = Null)]_vars

\* A blocked request has ended as a failure and the busy flag is off.
BusyWhileInFlightWitness ==
    /\ ~isLoading /\ task = Null
    /\ last = Call("handleGenerate", "failed")
    /\ error # Null
    /\ error[1].message # Null
    /\ error[1].message[1].template = "Request was blocked. Reason: "

\* The animate call has returned or thrown after at most 30 status queries.
AnimateSettled ==
    /\ Animating /\ Settled
    /\ task[1].service.queries <= maxAttempts

\* C31: when every await of the animate call settles, every animate
\* operation reaches its terminal result (the call returns or throws) after
\* at most maxAttempts (30) status queries, also when no reply ever reports
\* the operation done, and the handler then ends the operation.
AnimateTerminates ==
    /\ Animating ~> AnimateSettled
    /\ Animating ~> (task = Null /\ ~isLoading)

\* An operation never reported done has ended in the timeout after its
\* 30th status query.
AnimateTerminatesWitness ==
    /\ AnimateSettled
    /\ task[1].service.queries = maxAttempts
    /\ task[1].service.input[1].pending = maxAttempts + 1
    /\ task[1].service.result = Some(TimedOut)

\* The while loop has been left: the last reply was done, or it was the
\* 30th answer.
LoopEnded(service) ==
    /\ service.operation # Null
    /\ service.pc \in {"threw", "fetch", "blob", "returned"}
    /\ service.operation[1].done \/ service.attempts = maxAttempts

\* C32: an operation first reported done by the answer to the 30th status
\* query is complete: the call goes on to the error test, the link test and
\* the download, and does not report a timeout.  The timeout is reported
\* exactly when the loop has been left with the operation not done.
DoneOnLastQueryCompletes ==
    [][Animating
          => LET s == task[1].service
             IN  /\ (s.attempts = maxAttempts /\ s.operation[1].done)
                      => /\ s.result # Some(TimedOut)
                         /\ LoopEnded(s)
                         /\ IF s.operation[1].error # ""
                            THEN s.result
                                   = Some(Throw(Message("Video generation failed: ", "",
                                                        s.operation[1].error, "", <<>>)))
                            ELSE IF s.operation[1].uri = ""
                            THEN s.result
                                   = Some(Throw(Message("Video generation finished, but no download link was provided.",
                                                        "", "", "", <<>>)))
                            ELSE s.fetched
                 /\ s.result = Some(TimedOut)
                      <=> (LoopEnded(s) /\ ~s.operation[1].done)]_vars

\* The operation was first reported done by the 30th answer and its video
\* has been downloaded.
DoneOnLastQueryCompletesWitness ==
    /\ Animating
    /\ task[1].service.pc = "returned"
    /\ task[1].service.attempts = maxAttempts
    /\ task[1].service.queries = maxAttempts
    /\ task[1].service.input[1].pending = maxAttempts

\* The reply to the initiate request reported the operation done.
DoneAtInitiate ==
    /\ Animating /\ task[1].service.operation # Null
    /\ task[1].service.attempts = 0
    /\ task[1].service.operation[1].done

\* C33: when the reply to the initiate request already reports the
\* operation done, the run has no sleep, no status query and no elapsed-time
\* checkpoint, now and for the rest of the run: the call is at once past
\* the loop, at the throw for the error, at the throw for the missing link,
\* or at the download.
DoneAtInitiateSkipsLoop ==
    [][DoneAtInitiate
          => LET s == task[1].service
             IN  /\ s.sleeps = 0 /\ s.queries = 0
                 /\ \A i \in 1..Len(s.progress) :
                       s.progress[i].text # "Checking progress (s elapsed)..."
                 /\ s.pc \in {"threw", "fetch", "blob", "returned"}
                 /\ s.result # Some(TimedOut)
                 /\ s.operation[1].error # ""
                      => s.result
                           = Some(Throw(Message("Video generation failed: ", "",
                                                s.operation[1].error, "", <<>>)))
                 /\ (s.operation[1].error = "" /\ s.operation[1].uri = "")
                      => s.result
                           = Some(Throw(Message("Video generation finished, but no download link was provided.",
                                                "", "", "", <<>>)))
                 /\ (s.operation[1].error = "" /\ s.operation[1].uri # "")
                      => s.fetched
                 /\ task' # Null
                      => /\ task'[1].service.sleeps = 0
                         /\ task'[1].service.queries = 0
                         /\ task'[1].service.attempts = 0
                         /\ task'[1].service.operation = s.operation]_vars

\* An operation done at the initiate reply has its video downloaded without
\* a single sleep or status query.
DoneAtInitiateSkipsLoopWitness ==
    /\ DoneAtInitiate
    /\ task[1].service.pc = "returned"
    /\ task[1].service.sleeps = 0 /\ task[1].service.queries = 0
    /\ Len(task[1].service.progress) = 5

\* Every entry before the last one is an image.
VideoEntriesAreLast ==
    \A i \in 1..(Len(history) - 1) : ~isVideo(history[i])

\* A dispatch or a crop starts from an image head, and what is appended
\* comes right after an image.
NoVideoSource ==
    /\ last'.path = "dispatched"
         => (~isCurrentItemVideo /\ ~isVideo(task'[1].currentImage))
    /\ (last'.handler = "handleApplyCrop" /\ last'.path = "success")
         => ~isCurrentItemVideo
    /\ (history' # history /\ Len(history') > 1)
         => ~isVideo(history'[Len(history') - 1])

\* A history that starts with an uploaded video is changed by an upload or
\* by Upload New only.
VideoUploadStaysAlone ==
    (history # <<>> /\ isVideo(history[1]) /\ history' # history)
        => last'.handler \in {"handleImageUpload", "handleUploadNew"}

\* C34: a video in the history is its last entry: no Gateway operation and
\* no crop starts from a video, nothing is appended after a video, and a
\* history whose original upload is a video stays that single entry until
\* the next upload.
VideoIsLastEntry ==
    [][VideoEntriesAreLast /\ NoVideoSource /\ VideoUploadStaysAlone]_vars

\* The history as handleUndo and handleRedo see it: the entries and the head.
Store == [entries |-> history, head |-> historyIndex]

\* undo that also drops the entries beyond the new head.
undoPops(store) ==
    IF store.head > 0
    THEN [entries |-> SubSeq(store.entries, 1, store.head),
          head |-> store.head - 1]
    ELSE store

\* What handleUndo and handleRedo make of the entries and the head:
\* setHistoryIndex(historyIndex - 1) when canUndo, setHistoryIndex(
\* historyIndex + 1) when canRedo, and nothing otherwise.
undo(store) ==
    IF store.head > 0
    THEN [store EXCEPT !.head = store.head - 1]
    ELSE store

redo(store) ==
    IF store.head < Len(store.entries) - 1
    THEN [store EXCEPT !.head = store.head + 1]
    ELSE store

\* C35: undo and redo are inverses of each other on (entries, head): from a
\* state with head > 0, undo and then redo give back the same entries and
\* head, and from a state with head < len(entries) - 1, redo and then undo
\* do; handleUndo and handleRedo change the entries and the head exactly as
\* undo and redo say.
UndoRedoInverse ==
    [][/\ canUndo => redo(undo(Store)) = Store
       /\ canRedo => undo(redo(Store)) = Store
       /\ last'.handler = "handleUndo" => Store' = undo(Store)
       /\ last'.handler = "handleRedo" => Store' = redo(Store)
       /\ (last' = Call("handleUndo", "done") /\ handleUndo)
            => /\ canRedo'
               /\ redo(Store') = Store
       /\ (last' = Call("handleRedo", "done") /\ handleRedo)
            => /\ canUndo'
               /\ undo(Store') = Store]_vars

\* A redo has brought the head back to the second of two entries.
UndoRedoInverseWitness ==
    /\ last = Call("handleRedo", "done")
    /\ Len(history) = 2 /\ historyIndex = 1

====
